---- MODULE Spec2Model ----
(***************************************************************************)
(* A model of conda_build/metadata.py: the selector evaluator, the recipe  *)
(* document builder, the template resolution loop, the content hash, the   *)
(* output graph (toposort, pairwise cycle check, hash-pin check) and the   *)
(* rendering of the output set.                                            *)
(*                                                                         *)
(* Text is a sequence of one-character strings.  Each component has its    *)
(* own specification over its own variables; the variables of the other    *)
(* components stay at their idle values.                                   *)
(***************************************************************************)
EXTENDS Integers, Sequences, FiniteSets, TLC

VARIABLES
    \* ---- eval_selector (one invocation per step of the recursion)
    ev_orig,      \* the selector string eval_selector was first called with
    ev_str,       \* selector_string of the current invocation
    ev_ns,        \* the platform whose ns_cfg namespace is used
    ev_first,     \* missing_var of the first NameError, <<>> when none yet
    ev_depth,     \* recursion depth of the current invocation
    ev_pc,        \* "call" | "returned" | "raised"
    ev_res,       \* the value returned, once ev_pc = "returned"
    \* ---- select_lines
    sl_data,      \* the input lines, each a record of the parts it was written from
    sl_ns,        \* the platform whose ns_cfg namespace is used
    sl_pc,        \* "call" | "returned" | "exit"
    sl_lines,     \* the lines of the returned text
    \* ---- hash_dependencies on one MetaData
    hd_meta,      \* self.meta, the live document
    hd_cfg,       \* self.config: ignore_version, include_recipe
    hd_files,     \* the contents of the auxiliary recipe files, in path order
    hd_base,      \* the digest of the first call, NoDigest before it
    hd_last,      \* the digest of the latest call
    hd_calls,     \* the number of calls made
    hd_changes,   \* the kinds of change made to the MetaData since the first call
    \* ---- toposort and check_circular_dependencies on one output map
    od_map,       \* out_metadata_map: the entries (descriptor, Metadata) in insertion order
    od_order,     \* render_order, once toposort has returned
    od_pc,        \* "start" | "sorted" | "checked" | "raised"
    od_err,       \* the exception raised, NoError when none
    \* ---- ensure_matching_hashes on one map of finalized outputs
    pn_outputs,   \* conda_packages: the entries (key, Metadata) in insertion order
    pn_pc,        \* "start" | "returned" | "raised"
    pn_err,       \* the exception raised, NoError when none
    \* ---- get_output_metadata_set on one non-final MetaData
    gs_recipe,    \* the recipe text: name, requirements and outputs, before rendering
    gs_variants,  \* self.config.variants
    gs_permit,    \* permit_undefined_jinja, permit_unsatisfiable_variants
    gs_unsat,     \* the package names finalize_metadata cannot resolve
    gs_done,      \* the number of variants the loop has processed
    gs_map,       \* out_metadata_map
    gs_order,     \* render_order
    gs_conda,     \* conda_packages
    gs_non_conda, \* non_conda_packages
    gs_pc,        \* the position in get_output_metadata_set
    gs_err,       \* the exception raised, NoError when none
    gs_tuples,    \* output_tuples, once returned
    gs_visits,    \* the calls of finalize_metadata made, in order, with their outcome
    \* ---- MetaData.__init__ and parse_until_resolved on one recipe file
    rn_tpl,       \* the text of meta.yaml: the document it is, with its placeholders
    rn_path,      \* self.meta_path
    rn_script,    \* the names the jinja context lacks, for every render in turn
    rn_meta,      \* self.meta
    rn_final,     \* self.final, the value of extra/final
    rn_saved,     \* final, the local of parse_until_resolved
    rn_undef,     \* self.undefined_jinja_vars
    rn_prev,      \* undefined_jinja_vars, the local of parse_until_resolved
    rn_flag,      \* CONDA_BUILD_STATE is in os.environ
    rn_text,      \* the rendered contents handed to parse
    rn_parsed,    \* parse has ended on rn_text
    rn_pc,        \* the position in __init__ or parse_until_resolved
    rn_step,      \* the position in parse_again
    rn_renders,   \* the renders made: mode, recorded names, caller
    rn_err,       \* the exception raised, NoFailure when none
    rn_digests,   \* the hashes computed, each with the number of renders before it
    \* ---- build_id of a recipe and of its outputs
    bd_top,       \* the Metadata of the recipe
    bd_m,         \* the Metadata build_id is called on: bd_top or an output of it
    bd_pc,        \* "top", "output", "returned", "exited"
    bd_out,       \* what build_id returned
    \* ---- get_output_metadata and the objects its result refers to
    dv_heap,      \* the extra dicts that exist, by reference
    dv_parent,    \* the parent Metadata: name, config, the reference of its extra
    dv_outs,      \* the Metadata derived from the parent, in the order of the calls
    dv_start,     \* the parent and its extra section as they were constructed
    \* ---- the loop of parse_until_resolved, for a renderer that never stops changing
    lp_renderer,  \* "monotone": a name once defined stays defined; "any"
    lp_prev,      \* the local undefined_jinja_vars
    lp_undef,     \* self.undefined_jinja_vars, recorded by the latest render
    lp_pc,        \* "first", "while", "strict", "returned", "exited", "raised"
    lp_iter,      \* the passes of the loop body made, counted up to MaxLoops
    \* ---- the stages of one parse_again on one recipe text
    st_raw,       \* the lines of the recipe file
    st_ns,        \* the platform whose ns_cfg namespace is used
    st_permit,    \* permit_undefined_jinja
    st_pc,        \* the stage to run: "load" | "render" | "select" | "build" | "sanitize" | "done" | "exit"
    st_loaded,    \* the template source the loader handed to jinja2
    st_rendered,  \* rendered, the return value of _get_contents
    st_undef,     \* self.undefined_jinja_vars
    st_selected,  \* data, after select_lines in parse
    st_doc,       \* res, the document of parse
    st_trace,     \* the stages that have finished, in order
    \* ---- build_string_from_metadata on one Metadata
    bs_m,         \* metadata: requirements, variant, build section
    bs_pc,        \* "call" | "returned"
    bs_out        \* the pieces of the string returned

ev_vars == <<ev_orig, ev_str, ev_ns, ev_first, ev_depth, ev_pc, ev_res>>
sl_vars == <<sl_data, sl_ns, sl_pc, sl_lines>>
hd_vars == <<hd_meta, hd_cfg, hd_files, hd_base, hd_last, hd_calls, hd_changes>>
od_vars == <<od_map, od_order, od_pc, od_err>>
pn_vars == <<pn_outputs, pn_pc, pn_err>>
bd_vars == <<bd_top, bd_m, bd_pc, bd_out>>
dv_vars == <<dv_heap, dv_parent, dv_outs, dv_start>>
lp_vars == <<lp_renderer, lp_prev, lp_undef, lp_pc, lp_iter>>
bs_vars == <<bs_m, bs_pc, bs_out>>
st_vars == <<st_raw, st_ns, st_permit, st_pc, st_loaded, st_rendered, st_undef, st_selected,
             st_doc, st_trace>>
gs_vars == <<gs_recipe, gs_variants, gs_permit, gs_unsat, gs_done, gs_map, gs_order,
             gs_conda, gs_non_conda, gs_pc, gs_err, gs_tuples, gs_visits>>
rn_vars == <<rn_tpl, rn_path, rn_script, rn_meta, rn_final, rn_saved, rn_undef, rn_prev,
             rn_flag, rn_text, rn_parsed, rn_pc, rn_step, rn_renders, rn_err, rn_digests>>

-----------------------------------------------------------------------------
(* Bounds of the model.                                                    *)

\* words in a selector expression handed to eval_selector
MaxWords == 3
\* lines in the text handed to select_lines
MaxLines == 2
\* depth of the eval_selector recursion the model follows
MaxDepth == 6
\* calls of hash_dependencies on one MetaData
MaxHashCalls == 2
\* changes made to one MetaData between the calls
MaxChanges == 2
\* entries of the output map handed to toposort
MaxOutputs == 3
\* entries of the map of finalized outputs handed to ensure_matching_hashes
MaxPinned == 3
\* variants in config.variants
MaxVariants == 2
\* renders after which the jinja context no longer changes
MaxRenders == 3
\* run requirements of the Metadata handed to build_string_from_metadata
MaxRunReqs == 2
MaxDerived == 2
MaxLoops == 5

-----------------------------------------------------------------------------
(* Text helpers.                                                           *)

Range(s) == { s[i] : i \in 1..Len(s) }

RECURSIVE Concat(_)
Concat(ss) == IF ss = <<>> THEN <<>> ELSE Head(ss) \o Concat(Tail(ss))

IsSpace(c) == c = " "

\* str.rstrip()
RECURSIVE RStrip(_)
RStrip(s) ==
    IF s # <<>> /\ IsSpace(s[Len(s)]) THEN RStrip(SubSeq(s, 1, Len(s) - 1)) ELSE s

\* str.lstrip()
RECURSIVE LStrip(_)
LStrip(s) == IF s # <<>> /\ IsSpace(Head(s)) THEN LStrip(Tail(s)) ELSE s

\* s.startswith(p)
StartsWith(s, p) == Len(s) >= Len(p) /\ SubSeq(s, 1, Len(p)) = p

\* str.replace(old, new): every non-overlapping occurrence, left to right
\* (old is never empty here: it is the name of a NameError)
RECURSIVE StrReplace(_, _, _)
StrReplace(s, old, new) ==
    IF Len(s) < Len(old) THEN s
    ELSE IF SubSeq(s, 1, Len(old)) = old
         THEN new \o StrReplace(SubSeq(s, Len(old) + 1, Len(s)), old, new)
         ELSE <<Head(s)>> \o StrReplace(Tail(s), old, new)

\* str.split(): the maximal runs of non-blank characters
RECURSIVE SplitWords(_, _)
SplitWords(s, cur) ==
    IF s = <<>> THEN (IF cur = <<>> THEN <<>> ELSE <<cur>>)
    ELSE IF IsSpace(Head(s))
         THEN (IF cur = <<>> THEN <<>> ELSE <<cur>>) \o SplitWords(Tail(s), <<>>)
         ELSE SplitWords(Tail(s), Append(cur, Head(s)))

Words(s) == SplitWords(s, <<>>)

\* ' '.join(words)
RECURSIVE JoinWords(_)
JoinWords(ws) ==
    IF ws = <<>> THEN <<>>
    ELSE IF Len(ws) = 1 THEN ws[1]
    ELSE ws[1] \o <<" ">> \o JoinWords(Tail(ws))

-----------------------------------------------------------------------------
(* Words of the selector language.                                         *)

kwOr    == <<"o", "r">>
kwAnd   == <<"a", "n", "d">>
kwNot   == <<"n", "o", "t">>
kwFalse == <<"F", "a", "l", "s", "e">>
kwTrue  == <<"T", "r", "u", "e">>

symLinux == <<"l", "i", "n", "u", "x">>
symWin   == <<"w", "i", "n">>
symX86   == <<"x", "8", "6">>
symPy3k  == <<"p", "y", "3", "k">>
\* names no namespace defines
symX     == <<"x">>
symPy3   == <<"p", "y", "3">>
symN     == <<"n">>
\* a name no namespace defines, and a part of the word False
symA     == <<"a">>

Platforms == {"linux-64", "win-32"}

\* ns_cfg(config): the symbols the namespace defines and their values, for the
\* platform config.host_subdir and the default python (a python 3)
ns_cfg(plat) ==
    (symLinux :> (plat = "linux-64")) @@
    (symWin   :> (plat = "win-32")) @@
    (symX86   :> TRUE) @@
    (symPy3k  :> TRUE)

-----------------------------------------------------------------------------
(* eval(selector_string, namespace, {}) on the boolean fragment            *)
(*     or_test  ::= and_test ("or" and_test)*                              *)
(*     and_test ::= not_test ("and" not_test)*                             *)
(*     not_test ::= "not" not_test | NAME                                  *)
(* The whole string is compiled first (a malformed one is a SyntaxError    *)
(* whatever its names), then evaluated left to right with short circuit:   *)
(* the first name looked up and not found raises NameError.                *)

IsKeyword(w) == w \in {kwOr, kwAnd, kwNot}

\* the word sequence cut at every occurrence of sep
RECURSIVE SplitAt(_, _, _)
SplitAt(ws, sep, cur) ==
    IF ws = <<>> THEN <<cur>>
    ELSE IF Head(ws) = sep THEN <<cur>> \o SplitAt(Tail(ws), sep, <<>>)
    ELSE SplitAt(Tail(ws), sep, Append(cur, Head(ws)))

\* not_test: any number of "not", then one name
NotTestOk(ws) ==
    /\ ws # <<>>
    /\ \A i \in 1..(Len(ws) - 1) : ws[i] = kwNot
    /\ ~IsKeyword(ws[Len(ws)])

AndTestOk(ws) == \A i \in 1..Len(SplitAt(ws, kwAnd, <<>>)) :
                    NotTestOk(SplitAt(ws, kwAnd, <<>>)[i])

SyntaxOk(ws) == \A i \in 1..Len(SplitAt(ws, kwOr, <<>>)) :
                    AndTestOk(SplitAt(ws, kwOr, <<>>)[i])

Val(b)     == [k |-> "val", v |-> b]
NameErr(n) == [k |-> "NameError", n |-> n]
SyntaxErr  == [k |-> "SyntaxError"]

LookUp(w, ns) ==
    IF w = kwFalse THEN Val(FALSE)
    ELSE IF w = kwTrue THEN Val(TRUE)
    ELSE IF w \in DOMAIN ns THEN Val(ns[w])
    ELSE NameErr(w)

EvalNotTest(ws, ns) ==
    LET r == LookUp(ws[Len(ws)], ns)
    IN  IF r.k # "val" THEN r
        ELSE Val(IF (Len(ws) - 1) % 2 = 1 THEN ~r.v ELSE r.v)

\* the not_tests of an and_test, left to right: stop at the first false one
RECURSIVE EvalAndList(_, _)
EvalAndList(parts, ns) ==
    LET r == EvalNotTest(Head(parts), ns)
    IN  IF r.k # "val" THEN r
        ELSE IF Len(parts) = 1 \/ ~r.v THEN r
        ELSE EvalAndList(Tail(parts), ns)

\* the and_tests of an or_test, left to right: stop at the first true one
RECURSIVE EvalOrList(_, _)
EvalOrList(parts, ns) ==
    LET r == EvalAndList(SplitAt(Head(parts), kwAnd, <<>>), ns)
    IN  IF r.k # "val" THEN r
        ELSE IF Len(parts) = 1 \/ r.v THEN r
        ELSE EvalOrList(Tail(parts), ns)

PyEval(s, ns) ==
    LET ws == Words(s)
    IN  IF ~SyntaxOk(ws) THEN SyntaxErr
        ELSE EvalOrList(SplitAt(ws, kwOr, <<>>), ns)

-----------------------------------------------------------------------------
(* eval_selector                                                           *)

\* a retry on the string as it is
next_string_unchanged(selector_string, missing_var) == selector_string

\* next_string = selector_string.replace(missing_var, "False")
next_string(selector_string, missing_var) ==
    StrReplace(selector_string, missing_var, kwFalse)

RecursionErr == [k |-> "RecursionError"]

\* eval_selector as a function, the recursion followed to depth d
RECURSIVE eval_selector(_, _, _)
eval_selector(selector_string, ns, d) ==
    LET r == PyEval(selector_string, ns)
    IN  IF r.k # "NameError" THEN r
        ELSE IF d = 0 THEN RecursionErr
        ELSE eval_selector(next_string(selector_string, r.n), ns, d - 1)

-----------------------------------------------------------------------------
(* sel_pat under re.match.  Its parts, in order: group 1, lazy and not     *)
(* empty; blanks; group 2, optional, a "#" and a greedy rest; a pair of    *)
(* brackets holding group 3, which is not empty and holds no bracket; if   *)
(* group 2 took part, any characters but parentheses; the end of the line. *)

IsBracket(c) == c \in {"[", "]"}
IsParen(c)   == c \in {"(", ")"}

NoMatch == [m |-> FALSE]

\* the bracket pair with group 3 at position p of r: the position of its closing
\* bracket, 0 if there is none
CloseOf(r, p) ==
    IF p > Len(r) \/ r[p] # "[" THEN 0
    ELSE LET qs == { q \in (p + 2)..Len(r) :
                        /\ r[q] = "]"
                        /\ \A j \in (p + 1)..(q - 1) : ~IsBracket(r[j]) }
         IN  IF qs = {} THEN 0 ELSE CHOOSE q \in qs : TRUE

\* group 2 taking part: the places of the opening bracket for which "#", any
\* characters, the bracket pair and a rest without parentheses match r
WithComment(r) ==
    { p \in 2..Len(r) :
        /\ r[1] = "#"
        /\ CloseOf(r, p) # 0
        /\ \A j \in (CloseOf(r, p) + 1)..Len(r) : ~IsParen(r[j]) }

\* what follows group 1 and the blanks after it: with group 2 the greedy rest of
\* the comment takes the last bracket pair; without it the pair ends the line
MatchRest(r) ==
    IF r # <<>> /\ WithComment(r) # {}
    THEN LET p == CHOOSE x \in WithComment(r) : \A y \in WithComment(r) : y <= x
         IN  [m |-> TRUE, g3 |-> SubSeq(r, p + 1, CloseOf(r, p) - 1)]
    ELSE IF r # <<>> /\ CloseOf(r, 1) = Len(r)
    THEN [m |-> TRUE, g3 |-> SubSeq(r, 2, Len(r) - 1)]
    ELSE NoMatch

\* group 1 is lazy: the shortest non-empty prefix after which the rest matches
sel_pat(line) ==
    LET ks == { k \in 1..Len(line) :
                   MatchRest(LStrip(SubSeq(line, k + 1, Len(line)))).m }
    IN  IF ks = {} THEN NoMatch
        ELSE LET k == CHOOSE x \in ks : \A y \in ks : x <= y
             IN  [m  |-> TRUE,
                  g1 |-> SubSeq(line, 1, k),
                  g3 |-> MatchRest(LStrip(SubSeq(line, k + 1, Len(line)))).g3]

-----------------------------------------------------------------------------
(* select_lines                                                            *)

IsQuote(c) == c \in {"'", "\""}

\* trailing_quote of a line that has been rstripped
trailing_quote(line) ==
    IF line # <<>> /\ IsQuote(line[Len(line)]) THEN <<line[Len(line)]>> ELSE <<>>

\* line.lstrip().startswith('#')
IsCommentLine(line) == StartsWith(LStrip(line), <<"#">>)

\* select_line with the test of the selector's value left out
select_line_keeps_falsy(raw, ns) ==
    LET line == RStrip(raw)
        m    == sel_pat(line)
    IN  IF IsCommentLine(line) THEN [k |-> "skip"]
        ELSE IF m.m
        THEN LET r == eval_selector(m.g3, ns, MaxDepth)
             IN  IF r.k # "val" THEN [k |-> "exit"]
                 ELSE [k |-> "line", l |-> m.g1 \o trailing_quote(line)]
        ELSE [k |-> "line", l |-> line]

\* The body of the loop for one line: [k |-> "skip"] when nothing is appended,
\* [k |-> "line", l |-> text] when text is appended, [k |-> "exit"] on sys.exit.
select_line(raw, ns) ==
    LET line == RStrip(raw)
        m    == sel_pat(line)
    IN  IF IsCommentLine(line) THEN [k |-> "skip"]
        ELSE IF m.m
        THEN LET r == eval_selector(m.g3, ns, MaxDepth)
             IN  IF r.k # "val" THEN [k |-> "exit"]
                 ELSE IF r.v THEN [k |-> "line", l |-> m.g1 \o trailing_quote(line)]
                 ELSE [k |-> "skip"]
        ELSE [k |-> "line", l |-> line]

\* the loop over data.splitlines(): the list lines, or "exit" at the first sys.exit
RECURSIVE select_lines(_, _, _)
select_lines(data, ns, lines) ==
    IF data = <<>> THEN [k |-> "ok", lines |-> lines]
    ELSE LET r == select_line(Head(data), ns)
         IN  IF r.k = "exit" THEN [k |-> "exit"]
             ELSE select_lines(Tail(data), ns,
                               IF r.k = "line" THEN Append(lines, r.l) ELSE lines)

-----------------------------------------------------------------------------
(* Documents.  A value of the recipe document is a string, a requirement   *)
(* (the words of its text), a list, or a dict: the sequence of its         *)
(* <<key, value>> pairs in insertion order.                                *)

S(x) == [t |-> "s", v |-> x]
R(ws) == [t |-> "r", v |-> ws]
L(xs) == [t |-> "l", v |-> xs]
D(ps) == [t |-> "d", v |-> ps]

IsDict(x) == x.t = "d"

Keys(d) == { d.v[i][1] : i \in 1..Len(d.v) }

HasKey(d, k) == k \in Keys(d)

\* d.get(k, default)
Get(d, k, default) ==
    IF HasKey(d, k)
    THEN d.v[CHOOSE i \in 1..Len(d.v) : d.v[i][1] = k][2]
    ELSE default

\* d[k] = x: in place for a key the dict has, at the end for a new one
SetKey(d, k, x) ==
    IF HasKey(d, k)
    THEN D([i \in 1..Len(d.v) |-> IF d.v[i][1] = k THEN <<k, x>> ELSE d.v[i]])
    ELSE D(Append(d.v, <<k, x>>))

RECURSIVE DropKeys(_, _)
DropKeys(ps, ks) ==
    IF ps = <<>> THEN <<>>
    ELSE IF Head(ps)[1] \in ks THEN DropKeys(Tail(ps), ks)
    ELSE <<Head(ps)>> \o DropKeys(Tail(ps), ks)

\* del d[k] for the keys of ks that d has
DelKeys(d, ks) == D(DropKeys(d.v, ks))

\* the truth value Python gives a document value
PyTrue(x) == IF x.t = "s" THEN x.v # "" ELSE x.v # <<>>

\* empty list, empty string or empty dict
IsEmpty(x) == ~PyTrue(x)

\* utils.trim_empty_keys(dict_): the dicts inside are trimmed first, in place, then
\* the keys whose value is empty are deleted
RECURSIVE TrimPairs(_)
TrimPairs(ps) ==
    IF ps = <<>> THEN <<>>
    ELSE LET k == Head(ps)[1]
             x == Head(ps)[2]
             y == IF IsDict(x) THEN D(TrimPairs(x.v)) ELSE x
         IN  (IF IsEmpty(y) THEN <<>> ELSE << <<k, y>> >>) \o TrimPairs(Tail(ps))

trim_empty_keys(d) == D(TrimPairs(d.v))

\* what trim_empty_keys leaves in a dict that is shared with the caller's copy: the
\* dicts inside a section are the live ones, the section itself is a copy
TrimShared(section) ==
    D([i \in 1..Len(section.v) |->
        IF IsDict(section.v[i][2])
        THEN <<section.v[i][1], trim_empty_keys(section.v[i][2])>>
        ELSE section.v[i]])

-----------------------------------------------------------------------------
(* get_hash_contents and hash_dependencies                                 *)

\* self.get_section(section)
get_section(meta, section) == Get(meta, section, D(<<>>))

\* exclude_pattern.match(req): the requirement starts with one of the excluded names
NamePrefixes ==
    { <<"numpy", "numpy">>, <<"numpy", "numpy-base">>, <<"gcc", "gcc">>,
      <<"cmake", "cmake">> }

Excluded(req, excludes) ==
    \E i \in 1..Len(excludes) : <<excludes[i], req.v[1]>> \in NamePrefixes

\* build_reqs with the requirements matching ignore_version left out
FilterReqs(build_reqs, excludes) ==
    IF excludes # <<>>
    THEN L(SelectSeq(build_reqs.v, LAMBDA req : ~Excluded(req, excludes)))
    ELSE build_reqs

\* the keys of the build section that do not enter the hash
VolatileKeys == {"number", "string", "noarch", "noarch_python"}

\* for key in 'build', 'run': delete the key from the requirements if it is empty
DropEmptyReqs(reqs) ==
    DelKeys(reqs, { k \in {"build", "run"} :
                      HasKey(reqs, k) /\ ~PyTrue(Get(reqs, k, L(<<>>))) })

\* the composite before trim_empty_keys, with the build keys of drop deleted
CompositeWithout(meta, cfg, drop) ==
    LET c1    == D(<< <<"requirements", get_section(meta, "requirements")>>,
                      <<"build", get_section(meta, "build")>> >>)
        src   == get_section(meta, "source")
        c2    == IF PyTrue(src) THEN SetKey(c1, "source", src) ELSE c1
        reqs  == Get(c2, "requirements", D(<<>>))
        reqs1 == SetKey(reqs, "build",
                        FilterReqs(Get(reqs, "build", L(<<>>)), cfg.ignore_version))
        c3    == SetKey(c2, "requirements", reqs1)
        extra == Get(meta, "extra", D(<<>>))
        c4    == IF HasKey(extra, "copy_test_source_files")
                 THEN SetKey(c3, "extra",
                             D(<< <<"copy_test_source_files",
                                    S(IF Get(extra, "copy_test_source_files", S("")).v
                                            \in {"true", "True"}
                                      THEN "True" ELSE "False")>> >>))
                 ELSE c3
        build == DelKeys(Get(c4, "build", D(<<>>)), drop)
        c5    == IF ~PyTrue(build) THEN DelKeys(c4, {"build"})
                 ELSE SetKey(c4, "build", build)
    IN  SetKey(c5, "requirements", DropEmptyReqs(Get(c5, "requirements", D(<<>>))))

\* get_hash_contents with 'noarch' missing from the keys it deletes
HashContentsKeepsNoarch(meta, cfg) ==
    trim_empty_keys(CompositeWithout(meta, cfg, VolatileKeys \ {"noarch"}))

\* get_hash_contents: the composite it returns
get_hash_contents(meta, cfg) ==
    trim_empty_keys(CompositeWithout(meta, cfg, VolatileKeys))

\* self.include_recipe()
include_recipe(meta) ==
    Get(get_section(meta, "build"), "include_recipe", S("true")).v # "false"

\* get_hash_contents: the file_paths it returns, as the contents of those files
file_paths(meta, cfg, files) ==
    IF cfg.include_recipe /\ include_recipe(meta) THEN files ELSE <<>>

\* the live document after get_hash_contents: trim_empty_keys has trimmed, in place,
\* the dicts inside the sections whose shallow copies make the composite
MetaAfterHash(meta) ==
    LET touch(m, sec) ==
            IF HasKey(m, sec) /\ IsDict(Get(m, sec, D(<<>>)))
            THEN SetKey(m, sec, TrimShared(Get(m, sec, D(<<>>))))
            ELSE m
    IN  touch(touch(touch(meta, "requirements"), "build"), "source")

\* json.dumps(x) in insertion order, without sort_keys
RECURSIVE JsonUnsorted(_)
JsonUnsorted(x) ==
    IF x.t = "d"
    THEN [t |-> "obj",
          v |-> [i \in 1..Len(x.v) |-> <<x.v[i][1], JsonUnsorted(x.v[i][2])>>]]
    ELSE IF x.t = "l"
    THEN [t |-> "arr", v |-> [i \in 1..Len(x.v) |-> JsonUnsorted(x.v[i])]]
    ELSE x

\* json.dumps(x, sort_keys=True): the text is fixed by the value of every key, not by
\* the order the keys were inserted in
RECURSIVE JsonSorted(_)
JsonSorted(x) ==
    IF x.t = "d"
    THEN [t |-> "obj", v |-> [k \in Keys(x) |-> JsonSorted(Get(x, k, S("")))]]
    ELSE IF x.t = "l"
    THEN [t |-> "arr", v |-> [i \in 1..Len(x.v) |-> JsonSorted(x.v[i])]]
    ELSE x

\* hashlib.sha1 of the text, updated with the files: taken to be free of collisions,
\* so a digest is equal to another exactly when text and files are
Sha1(text, files) == [json |-> text, files |-> files]

NoDigest == [json |-> S("none"), files |-> <<>>]

\* hash_dependencies with the keys of the composite serialized in insertion order
HashUnsortedKeys(meta, cfg, files) ==
    Sha1(JsonUnsorted(get_hash_contents(meta, cfg)),
         IF cfg.recipe_path THEN file_paths(meta, cfg, files) ELSE <<>>)

hash_dependencies(meta, cfg, files) ==
    Sha1(JsonSorted(get_hash_contents(meta, cfg)),
         IF cfg.recipe_path THEN file_paths(meta, cfg, files) ELSE <<>>)

-----------------------------------------------------------------------------
(* Outputs: descriptors, the Metadata derived from them, their ordering.    *)
(* A requirement is the sequence of the tokens dep.split(' ') gives; a key  *)
(* a descriptor does not have is NoName, NoType.                            *)

NoName == ""
NoType == ""
NoError == [type |-> "none", pairs |-> <<>>]

\* build/run_exports: a list, or a dict with the keys strong and weak
ExportsList(list) == [keys |-> FALSE, list |-> list, strong |-> <<>>, weak |-> <<>>]
ExportsDict(strong, weak) == [keys |-> TRUE, list |-> <<>>, strong |-> strong, weak |-> weak]

\* name == dep or dep.startswith(name + ' ')
Names(name, dep) == dep = <<name>> \/ (Len(dep) >= 2 /\ dep[1] = name)

\* get_output_metadata, as far as name, requirements, variant and finality go: the
\* name is the output's (the parent's when it has none), with '_' and the type
\* appended for a type other than conda; a named output loses the requirements on
\* itself; the build section is the parent's, which has no run_exports
get_output_metadata(self, output) ==
    LET base == IF output.name = NoName THEN self.name ELSE output.name
        keep(reqs) ==
            IF output.name # NoName
            THEN SelectSeq(reqs, LAMBDA req : ~Names(output.name, req))
            ELSE reqs
    IN  [name |-> IF output.type # NoType /\ output.type # "conda"
                  THEN base \o "_" \o output.type
                  ELSE base,
         variant |-> self.variant,
         \* output_metadata.meta['extra'] = self.meta.get('extra', {}) (lines
         \* 1642-1645): the dict of self, which every output derived from self
         \* holds, and with it the flag final
         extra_of |-> self.variant,
         final |-> FALSE,
         run_exports |-> ExportsList(<<>>),
         reqs |-> [build |-> keep(output.reqs.build),
                   host |-> keep(output.reqs.host),
                   run |-> keep(output.reqs.run)]]

\* output_d.get('type', 'conda') == 'conda'
IsConda(output_d) == output_d.type \in {NoType, "conda"}

CondaIdx(map) == { i \in 1..Len(map) : IsConda(map[i].d) }

these_packages(map) == { map[i].d.name : i \in CondaIdx(map) }

\* the keys of topodict, in the order they were first inserted
RECURSIVE TopoKeys(_, _)
TopoKeys(map, seen) ==
    IF map = <<>> THEN <<>>
    ELSE LET output_d == Head(map).d
         IN  IF IsConda(output_d) /\ output_d.name \notin seen
             THEN <<output_d.name>> \o TopoKeys(Tail(map), seen \cup {output_d.name})
             ELSE TopoKeys(Tail(map), seen)

\* topodict[name]: set() at every entry of that name, then updated from the
\* requirements of that entry, so the last entry of a name decides
TopoDeps(map, name, phase) ==
    LET last == CHOOSE i \in CondaIdx(map) :
                    /\ map[i].d.name = name
                    /\ \A j \in CondaIdx(map) : map[j].d.name = name => j <= i
    IN  { run_dep[1] : run_dep \in Range(map[last].m.reqs[phase]) }
            \cap these_packages(map)

\* conda_interface._toposort: the items none of whose dependencies is still to
\* come, then those that depend on them only, and so on; a dependency of an item on
\* itself is ignored; items left when no item is free are a cycle
RECURSIVE TopoLayers(_, _, _)
TopoLayers(keys, data, done) ==
    LET left == SelectSeq(keys, LAMBDA k : k \notin Range(done))
        ordered == SelectSeq(left, LAMBDA k : (data[k] \ {k}) \subseteq Range(done))
    IN  IF ordered = <<>>
        THEN [order |-> done, cyclic |-> left # <<>>]
        ELSE TopoLayers(keys, data, done \o ordered)

\* toposort(output_metadata_map, phase)
toposort(map, phase) ==
    IF \E i \in CondaIdx(map) : map[i].d.name = NoName
    THEN [raised |-> "KeyError", order |-> <<>>]
    ELSE LET topo == TopoLayers(TopoKeys(map, {}),
                                [n \in these_packages(map) |-> TopoDeps(map, n, phase)],
                                <<>>)
             OfName(pkgname) == SelectSeq(map, LAMBDA e : e.d.name = pkgname)
             endorder == (1..Len(map)) \ CondaIdx(map)
         IN  IF topo.cyclic
             THEN [raised |-> "CondaValueError", order |-> <<>>]
             ELSE [raised |-> "none",
                   order |-> Concat([i \in 1..Len(topo.order) |-> OfName(topo.order[i])])
                             \o (IF endorder = {} THEN <<>> ELSE OfName(NoName))]

\* _get_all_dependencies(metadata, envs)
RECURSIVE get_all_dependencies(_, _)
get_all_dependencies(metadata, envs) ==
    IF envs = <<>> THEN <<>>
    ELSE metadata.reqs[Head(envs)] \o get_all_dependencies(metadata, Tail(envs))

\* a test that is satisfied by a dependency in one direction
OneWay(m, other_m) ==
    \/ \E dep \in Range(get_all_dependencies(other_m, <<"host", "build", "run">>)) :
           Names(m.name, dep)
    \/ \E dep \in Range(get_all_dependencies(m, <<"host", "build", "run">>)) :
           Names(other_m.name, dep)

\* lines 245-248: each of the two is named by a requirement of the other
Mutual(m, other_m) ==
    /\ \E dep \in Range(get_all_dependencies(other_m, <<"host", "build", "run">>)) :
           Names(m.name, dep)
    /\ \E dep \in Range(get_all_dependencies(m, <<"host", "build", "run">>)) :
           Names(other_m.name, dep)

\* check_circular_dependencies: the pairs of its message, empty when it returns
RECURSIVE CircularPairs(_)
CircularPairs(values) ==
    IF values = <<>> THEN <<>>
    ELSE LET m == Head(values)
             rest == Tail(values)
             later == SelectSeq(rest, LAMBDA other_m : Mutual(m, other_m))
         IN  [i \in 1..Len(later) |-> <<m.name, later[i].name>>]
             \o CircularPairs(rest)

check_circular_dependencies(render_order) ==
    CircularPairs([i \in 1..Len(render_order) |-> render_order[i].m])

-----------------------------------------------------------------------------
(* Exact pins: build_id and ensure_matching_hashes.                         *)

\* A build string is the sequence of its pieces: "_", a number, a digest ('h' and
\* hash_length hexadecimal digits), or another word without '_'.
NoString == <<>>

Digests == {"h1a", "h2b", "h3c", "h0f"}

IsDigest(piece) == piece \in Digests

\* int(piece) returns
IsInt(piece) == piece \in {"0", "1", "2"}

\* "".join(pieces)
RECURSIVE JoinPieces(_)
JoinPieces(pieces) ==
    IF pieces = <<>> THEN "" ELSE Head(pieces) \o JoinPieces(Tail(pieces))

\* check_bad_chrs(s, 'build/string') exits
BadChrs == {"-", "!", " "}

check_bad_chrs(pieces) == \E i \in 1..Len(pieces) : pieces[i] \in BadChrs

\* the keys of config.variant that build_string_from_metadata looks up
PinKeys == {"numpy", "python", "perl", "lua", "r", "r_base"}

\* a variant without any of them, and one with a python; a version is the
\* sequence of its components
NoPins == [k \in PinKeys |-> <<>>]

PythonPin(version) == [NoPins EXCEPT !["python"] = version]

\* the tuple of line 469-470: abbreviation, names, places
PinTable ==
    << [s |-> "np", names |-> <<"numpy">>, places |-> 2],
       [s |-> "py", names |-> <<"python">>, places |-> 2],
       [s |-> "pl", names |-> <<"perl">>, places |-> 2],
       [s |-> "lua", names |-> <<"lua">>, places |-> 2],
       [s |-> "r", names |-> <<"r", "r-base">>, places |-> 3] >>

\* _n.replace('-', '_')
VariantKey(name) == IF name = "r-base" THEN "r_base" ELSE name

\* MetaData.is_cross
is_cross(m) == m.reqs.host # <<>>

\* [ms.name for ms in metadata.ms_depends(typ)]
ms_depends(m, typ) == [i \in 1..Len(m.reqs[typ]) |-> m.reqs[typ][i][1]]

\* lines 482-488: the version of the first name of the entry that the variant
\* has, and of it the first places components
variant_version(m, entry) ==
    LET found == SelectSeq(entry.names, LAMBDA n : m.pins[VariantKey(n)] # <<>>)
        version == IF found = <<>> THEN <<>> ELSE m.pins[VariantKey(found[1])]
    IN  SubSeq(version, 1, IF Len(version) < entry.places THEN Len(version) ELSE entry.places)

\* a token with the version of the variant whatever the noarch of the Metadata
PinTokenWithVersion(m, entry, name) == entry.s \o JoinPieces(variant_version(m, entry))

\* lines 478-489: the token appended for a run requirement that names name
PinToken(m, entry, name) ==
    IF m.noarch = name \/ (m.noarch_python /\ name = "python")
    THEN entry.s
    ELSE entry.s \o JoinPieces(variant_version(m, entry))

\* a token for every run requirement of a recognised name
PinnedWithoutBuild(m, name, build_pkg_names) == TRUE

\* line 473: name in build_pkg_names
PinnedInBuild(m, name, build_pkg_names) == name \in Range(build_pkg_names)

\* lines 469-489: res, the tokens in the order of the table, then of the run
\* requirements, then of the names of the entry
PinTokens(m) ==
    LET build_pkg_names == ms_depends(m, IF is_cross(m) THEN "host" ELSE "build")
        run == ms_depends(m, "run")
        OfName(entry, ms, name) ==
            IF /\ ms = name
               /\ PinnedInBuild(m, name, build_pkg_names)
               /\ ~(name = "numpy" /\ ~m.numpy_xx)
            THEN <<PinToken(m, entry, name)>>
            ELSE <<>>
        OfSpec(entry, ms) ==
            Concat([k \in 1..Len(entry.names) |-> OfName(entry, ms, entry.names[k])])
        OfEntry(entry) == Concat([j \in 1..Len(run) |-> OfSpec(entry, run[j])])
    IN  Concat([i \in 1..Len(PinTable) |-> OfEntry(PinTable[i])])

\* MetaData.build_number: int(number), "" when that fails
build_number(m) == IF IsInt(m.number) THEN m.number ELSE ""

\* '_'.join(features)
RECURSIVE JoinFeatures(_)
JoinFeatures(features) ==
    IF Len(features) <= 1 THEN features
    ELSE <<Head(features), "_">> \o JoinFeatures(Tail(features))

\* build_string_from_metadata(metadata): build/string when it is set, else the
\* tokens of the pinned runtimes, the features and the build number
build_string_from_metadata(m) ==
    IF m.string # NoString
    THEN m.string
    ELSE LET res == PinTokens(m)
         IN  res
             \o (IF res # <<>> THEN <<"_">> ELSE <<>>)
             \o (IF m.features # <<>> THEN JoinFeatures(m.features) \o <<"_">> ELSE <<>>)
             \o <<IF build_number(m) \in {"", "0"} THEN "0" ELSE build_number(m)>>

\* self.extract_package_and_build_text(): what the text of the file at meta_path,
\* up to its requirements section, has for 'string:'; no file, no text
extract_package_and_build_text(m) ==
    IF m.meta_path = "" THEN "none" ELSE m.raw

\* lines 1132-1144: the digest replaces every digest of the string, or goes
\* around the last '_'
HashedBuildString(out, digest) ==
    IF \E i \in 1..Len(out) : IsDigest(out[i])
    THEN [i \in 1..Len(out) |-> IF IsDigest(out[i]) THEN digest ELSE out[i]]
    ELSE LET seps == {i \in 1..Len(out) : out[i] = "_"}
             k == IF seps = {} THEN 0 ELSE CHOOSE i \in seps : \A j \in seps : j <= i
             ret0 == IF k = 0 THEN out ELSE SubSeq(out, 1, k - 1)
             head == IF Len(ret0) = 1 /\ IsInt(ret0[1])
                     THEN <<digest, "_">> \o ret0
                     ELSE ret0 \o <<digest>>
         IN  IF k = 0 THEN head ELSE head \o <<"_">> \o SubSeq(out, k + 1, Len(out))

\* MetaData.build_id: the build string of the document as it is when the text of
\* the recipe has 'string:' and no hash placeholder; else the string of
\* build_string_from_metadata, with the digest of hash_dependencies when the
\* Metadata is final and file names are hashed
build_id(m) ==
    LET text == extract_package_and_build_text(m)
    IN  IF text = "none" \/ text = "placeholder"
        THEN LET out == build_string_from_metadata(m)
             IN  IF m.filename_hashing /\ m.final
                 THEN JoinPieces(HashedBuildString(out, m.hash))
                 ELSE JoinPieces(out)
        ELSE JoinPieces(m.string)

\* run_exports of the build section: a list, or a dict of which strong and weak count
RunExports(om) ==
    IF om.run_exports.keys
    THEN om.run_exports.strong \o om.run_exports.weak
    ELSE om.run_exports.list

\* ensure_matching_hashes with the host requirements left out
MatchingHashesWithoutHost(output_metadata) ==
    LET n == Len(output_metadata)
        Problems(i, j) ==
            LET m == output_metadata[i].m
                om == output_metadata[j].m
                deps == get_all_dependencies(om, <<"build", "run">>) \o RunExports(om)
                bad == SelectSeq(deps, LAMBDA dep :
                           /\ Len(dep) >= 2 /\ dep[1] = m.name
                           /\ Len(dep) = 3
                           /\ dep[3] # build_id(m))
            IN  IF i = j THEN <<>> ELSE [k \in 1..Len(bad) |-> <<m.name, om.name>>]
    IN  Concat([i \in 1..n |-> Concat([j \in 1..n |-> Problems(i, j)])])

\* ensure_matching_hashes: problemos, the pairs of its message; it returns when
\* there is none
ensure_matching_hashes(output_metadata) ==
    LET n == Len(output_metadata)
        Problems(i, j) ==
            LET m == output_metadata[i].m
                om == output_metadata[j].m
                deps == get_all_dependencies(om, <<"build", "host", "run">>)
                            \o RunExports(om)
                bad == SelectSeq(deps, LAMBDA dep :
                           /\ Len(dep) >= 2 /\ dep[1] = m.name
                           /\ Len(dep) = 3
                           /\ dep[3] # build_id(m))
            IN  IF i = j THEN <<>> ELSE [k \in 1..Len(bad) |-> <<m.name, om.name>>]
    IN  Concat([i \in 1..n |-> Concat([j \in 1..n |-> Problems(i, j)])])

-----------------------------------------------------------------------------
(* The output set: from the recipe and the variants to the output tuples.   *)
(* A requirement of the recipe text is its tokens and whether the text pins *)
(* it to the variant, as 'python {{ python }}' does.                        *)

\* what parse_until_resolved makes of a requirement under a variant
RenderDep(dep, variant) == IF dep.pin THEN dep.tokens \o <<variant>> ELSE dep.tokens

RenderDeps(deps, variant) == [i \in 1..Len(deps) |-> RenderDep(deps[i], variant)]

RenderReqs(reqs, variant) ==
    [build |-> RenderDeps(reqs.build, variant),
     host |-> RenderDeps(reqs.host, variant),
     run |-> RenderDeps(reqs.run, variant)]

\* om = self.copy(); om.config.variant = variant; om.parse_until_resolved(...):
\* the document of the recipe under the variant
RenderRecipe(recipe, variant) ==
    [name |-> recipe.name,
     variant |-> variant,
     reqs |-> RenderReqs(recipe.reqs, variant),
     outputs |-> [i \in 1..Len(recipe.outputs) |->
                      [name |-> recipe.outputs[i].name,
                       type |-> recipe.outputs[i].type,
                       reqs |-> RenderReqs(recipe.outputs[i].reqs, variant)]]]

\* output_dict_from_top_level_meta (noarch, noarch_python and run_exports are the
\* same in every document of the model and are left out)
output_dict_from_top_level_meta(m) ==
    [name |-> m.name, type |-> "conda", reqs |-> m.reqs]

\* MetaData.uses_subpackage, without the search of the text for pin_subpackage:
\* in_reqs is assigned again for every named output, so the last one decides
uses_subpackage(m) ==
    LET named == SelectSeq(m.outputs, LAMBDA out : out.name # NoName)
    IN  /\ named # <<>>
        /\ \E req \in Range(m.reqs.run) : Names(named[Len(named)].name, req)

\* get_output_dicts_from_metadata (the loop of lines 598-604 fills in an output
\* that has the name of the recipe and no requirements key; the declared outputs
\* of the model's recipes have other names)
get_output_dicts_from_metadata(metadata) ==
    IF metadata.outputs = <<>>
    THEN <<output_dict_from_top_level_meta(metadata)>>
    ELSE IF /\ uses_subpackage(metadata)
            /\ ~\E out \in Range(metadata.outputs) : out.name = metadata.name
         THEN Append(metadata.outputs, output_dict_from_top_level_meta(metadata))
         ELSE metadata.outputs

\* the document after get_output_dicts_from_metadata: get_section hands out the
\* list of the document itself, so the append of line 596 and the assignments of
\* lines 601-604 are made to the document; a document without outputs is left alone
after_get_output_dicts(metadata) ==
    IF metadata.outputs = <<>>
    THEN metadata
    ELSE [metadata EXCEPT !.outputs = get_output_dicts_from_metadata(metadata)]

\* get_updated_output_dict_from_reparsed_metadata: the outputs it has to choose
\* from; it asserts that there is one
UpdatedOutputDicts(original_dict, new_outputs) ==
    IF original_dict.name # NoName
    THEN SelectSeq(new_outputs, LAMBDA out : out.name = original_dict.name)
    ELSE <<original_dict>>

\* a map keyed by the name of the descriptor
PutOutputByName(map, out, m) ==
    IF \E i \in 1..Len(map) : map[i].d.name = out.name
    THEN [i \in 1..Len(map) |->
              IF map[i].d.name = out.name THEN [d |-> out, m |-> m] ELSE map[i]]
    ELSE Append(map, [d |-> out, m |-> m])

\* a map that keeps one entry for every assignment, equal descriptors or not
PutOutputAppends(map, out, m) == Append(map, [d |-> out, m |-> m])

\* out_metadata_map[HashableDict(out)] = m: the Metadata of a descriptor that is
\* a key already is replaced, a new descriptor goes to the end
PutOutput(map, out, m) ==
    IF \E i \in 1..Len(map) : map[i].d = out
    THEN [i \in 1..Len(map) |-> IF map[i].d = out THEN [d |-> out, m |-> m] ELSE map[i]]
    ELSE Append(map, [d |-> out, m |-> m])

\* packages[m.name(), HashableDict(m.config.variant)] = (output_d, m)
PutPackage(packages, output_d, m) ==
    LET key == <<m.name, m.variant>>
        item == [key |-> key, d |-> output_d, m |-> m]
    IN  IF \E i \in 1..Len(packages) : packages[i].key = key
        THEN [i \in 1..Len(packages) |->
                  IF packages[i].key = key THEN item ELSE packages[i]]
        ELSE Append(packages, item)

\* the for loop over the outputs of one variant (lines 1705-1707)
RECURSIVE PutOutputs(_, _, _)
PutOutputs(map, om, outputs) ==
    IF outputs = <<>> THEN map
    ELSE PutOutputs(PutOutput(map, Head(outputs), get_output_metadata(om, Head(outputs))),
                    om, Tail(outputs))

\* the classification of the ordered outputs (lines 1720-1742): conda packages by
\* name and variant; a wheel gets 'wheel' and the python of its variant as build
\* requirements when it has no build requirement that names wheel
NeedsWheel(output_d) ==
    ~\E req \in Range(output_d.reqs.build) : \E i \in 1..Len(req) : req[i] = "wheel"

WheelReqs(output_d, variant) ==
    output_d.reqs.build \o << <<"wheel">>, <<"python", variant>> >>

RECURSIVE CondaPackages(_)
CondaPackages(render_order) ==
    IF render_order = <<>> THEN <<>>
    ELSE LET init == SubSeq(render_order, 1, Len(render_order) - 1)
             e == render_order[Len(render_order)]
         IN  IF e.d.type = NoType \/ e.d.type = "conda"
             THEN PutPackage(CondaPackages(init), e.d, e.m)
             ELSE CondaPackages(init)

NonCondaPackages(render_order) ==
    LET others == SelectSeq(render_order,
                            LAMBDA e : ~(e.d.type = NoType \/ e.d.type = "conda"))
    IN  [i \in 1..Len(others) |->
            IF others[i].d.type = "wheel" /\ NeedsWheel(others[i].d)
            THEN [d |-> [others[i].d EXCEPT
                             !.reqs.build = WheelReqs(others[i].d, others[i].m.variant)],
                  m |-> [others[i].m EXCEPT
                             !.reqs.build = WheelReqs(others[i].d, others[i].m.variant)]]
            ELSE others[i]]

\* render.finalize_metadata, the dependency solver: it raises
\* DependencyNeedsBuildingError for the names it cannot resolve in the round at
\* hand (round 3 is the loop after round 2), else it returns the Metadata, final
CannotResolve(m, pass_no, unsat) == <<m.name, pass_no>> \in unsat

finalize_metadata(m) == [m EXCEPT !.final = TRUE, !.extra_of = "copy"]

\* a call of finalize_metadata, or the assertion before it: the round, the key
\* and the Metadata of the output it is for, the variant the base recipe was
\* parsed under, what came of it ("finalized", "tolerated", "raised" for a
\* DependencyNeedsBuildingError that propagates, "asserted") and the Metadata
\* recorded
Visit(pass_no, entry, variant, outcome, m) ==
    [pass_no |-> pass_no, key |-> entry.key, before |-> entry.m, variant |-> variant,
     dnbe |-> outcome \in {"tolerated", "raised"}, outcome |-> outcome, m |-> m]

\* one output of a round of finalize_outputs_pass (lines 614-657): the outputs so
\* far with the entry of this output, or the exception that ends the round;
\* first a loop body that swallows DependencyNeedsBuildingError whatever the
\* caller permits
FinalizeOutputSwallows(recipe, entry, pass_no, unsat, permit, done) ==
    LET doc == RenderRecipe(recipe, entry.m.variant)
        found == UpdatedOutputDicts(entry.d, get_output_dicts_from_metadata(doc))
    IN  IF Len(found) # 1
        THEN [raised |-> "AssertionError", outputs |-> done,
              visits |-> <<Visit(pass_no, entry, doc.variant, "asserted", entry.m)>>]
        ELSE LET output_d == found[1]
                 om == get_output_metadata(doc, output_d)
             IN  IF CannotResolve(om, pass_no, unsat)
                 THEN [raised |-> "none",
                       outputs |-> PutPackage(done, output_d, entry.m),
                       visits |-> <<Visit(pass_no, entry, doc.variant, "tolerated",
                                          entry.m)>>]
                 ELSE [raised |-> "none",
                       outputs |-> IF output_d.type = NoType \/ output_d.type = "conda"
                                   THEN PutPackage(done, output_d, finalize_metadata(om))
                                   ELSE done,
                       visits |-> <<Visit(pass_no, entry, doc.variant, "finalized",
                                          finalize_metadata(om))>>]

FinalizeOutput(recipe, entry, pass_no, unsat, permit, done) ==
    LET doc == RenderRecipe(recipe, entry.m.variant)
        found == UpdatedOutputDicts(entry.d, get_output_dicts_from_metadata(doc))
    IN  IF Len(found) # 1
        THEN [raised |-> "AssertionError", outputs |-> done,
              visits |-> <<Visit(pass_no, entry, doc.variant, "asserted", entry.m)>>]
        ELSE LET output_d == found[1]
                 om == get_output_metadata(doc, output_d)
             IN  IF CannotResolve(om, pass_no, unsat)
                 THEN IF ~permit
                      THEN [raised |-> "DependencyNeedsBuildingError", outputs |-> done,
                            visits |-> <<Visit(pass_no, entry, doc.variant, "raised",
                                               entry.m)>>]
                      ELSE [raised |-> "none",
                            outputs |-> PutPackage(done, output_d, entry.m),
                            visits |-> <<Visit(pass_no, entry, doc.variant, "tolerated",
                                               entry.m)>>]
                 ELSE [raised |-> "none",
                       outputs |-> IF output_d.type = NoType \/ output_d.type = "conda"
                                   THEN PutPackage(done, output_d, finalize_metadata(om))
                                   ELSE done,
                       visits |-> <<Visit(pass_no, entry, doc.variant, "finalized",
                                          finalize_metadata(om))>>]

RECURSIVE FinalizeRound(_, _, _, _, _, _)
FinalizeRound(recipe, render_order, pass_no, unsat, permit, done) ==
    IF render_order = <<>> THEN [raised |-> "none", outputs |-> done, visits |-> <<>>]
    ELSE LET one == FinalizeOutput(recipe, Head(render_order), pass_no, unsat, permit, done)
             rest == FinalizeRound(recipe, Tail(render_order), pass_no, unsat, permit,
                                   one.outputs)
         IN  IF one.raised # "none" THEN one
             ELSE [rest EXCEPT !.visits = one.visits \o @]

\* the loop after round 2 (lines 658-662): one more finalize_metadata of each output
RECURSIVE FinalOutputs(_, _, _)
FinalOutputs(outputs, unsat, done) ==
    IF outputs = <<>> THEN [raised |-> "none", outputs |-> done, visits |-> <<>>]
    ELSE LET e == Head(outputs)
             rest == FinalOutputs(Tail(outputs), unsat,
                                  PutPackage(done, e.d, finalize_metadata(e.m)))
         IN  IF CannotResolve(e.m, 3, unsat)
             THEN [raised |-> "DependencyNeedsBuildingError", outputs |-> done,
                   visits |-> <<Visit(3, e, e.m.variant, "raised", e.m)>>]
             ELSE [rest EXCEPT !.visits =
                       <<Visit(3, e, e.m.variant, "finalized", finalize_metadata(e.m))>> \o @]

\* the final loop entered a round early
final_pass_at_one(pass_no) == pass_no = 1

\* if pass_no == 2 (line 657)
final_pass(pass_no) == pass_no = 2

\* finalize_outputs_pass(base_metadata, render_order, pass_no, ...)
RECURSIVE finalize_outputs_pass(_, _, _, _, _)
finalize_outputs_pass(recipe, render_order, pass_no, unsat, permit) ==
    LET round == FinalizeRound(recipe, render_order, pass_no, unsat, permit, <<>>)
        later == IF final_pass(pass_no) THEN FinalOutputs(round.outputs, unsat, <<>>)
                 ELSE finalize_outputs_pass(recipe, render_order, pass_no + 1, unsat, permit)
    IN  IF round.raised # "none" THEN round
        ELSE [later EXCEPT !.visits = round.visits \o @]

\* the marking of lines 1773-1777: every conda package final, then the others,
\* final when their extra dict is the one of a conda package
OutputTuples(conda_packages, non_conda_packages) ==
    LET marked == {conda_packages[i].m.extra_of : i \in 1..Len(conda_packages)} \ {"copy"}
    IN  [i \in 1..Len(conda_packages) |->
             [d |-> conda_packages[i].d,
              m |-> [conda_packages[i].m EXCEPT !.final = TRUE]]]
        \o [i \in 1..Len(non_conda_packages) |->
             [d |-> non_conda_packages[i].d,
              m |-> [non_conda_packages[i].m EXCEPT
                         !.final = @ \/ non_conda_packages[i].m.extra_of \in marked]]]

-----------------------------------------------------------------------------
(* Rendering and parsing.  The text of a recipe is given by the document    *)
(* it yamlizes to (BaseLoader: strings, lists and dicts), with a            *)
(* placeholder where the text has a jinja expression of one name.           *)

\* {{ name }}
T(name) == [t |-> "t", v |-> name]

\* None
N == [t |-> "n", v |-> <<>>]

IsNone(x) == x.t = "n"

\* the value of a name the context defines
Defined(name) == S("1.0")

RECURSIVE TemplateNames(_)
TemplateNames(x) ==
    IF x.t = "t" THEN {x.v}
    ELSE IF x.t = "l" THEN UNION { TemplateNames(x.v[i]) : i \in 1..Len(x.v) }
    ELSE IF x.t = "d" THEN UNION { TemplateNames(x.v[i][2]) : i \in 1..Len(x.v) }
    ELSE {}

\* template.render: an undefined name is the empty text (UndefinedNeverFail)
RECURSIVE RenderValue(_, _)
RenderValue(x, lacks) ==
    IF x.t = "t" THEN (IF x.v \in lacks THEN S("") ELSE Defined(x.v))
    ELSE IF x.t = "l" THEN L([i \in 1..Len(x.v) |-> RenderValue(x.v[i], lacks)])
    ELSE IF x.t = "d"
    THEN D([i \in 1..Len(x.v) |-> <<x.v[i][1], RenderValue(x.v[i][2], lacks)>>])
    ELSE x

NoFailure == [type |-> "none", msg |-> "", field |-> "", path |-> "", names |-> {}]

Failure(type, msg, field, path, names) ==
    [type |-> type, msg |-> msg, field |-> field, path |-> path, names |-> names]

\* MetaData._get_contents: the rendered text and the names recorded; a strict
\* render of a name the context lacks is a jinja2.TemplateError, and that a
\* sys.exit, before undefined_jinja_vars is assigned
get_contents(tpl, lacks, permit_undefined_jinja, meta_path, undefined_jinja_vars) ==
    LET missing == TemplateNames(tpl) \cap lacks
    IN  IF ~permit_undefined_jinja /\ missing # {}
        THEN [err |-> Failure("SystemExit", "Error: Failed to render jinja template",
                              "", meta_path, missing),
              rendered |-> N, undefined_jinja_vars |-> undefined_jinja_vars]
        ELSE [err |-> NoFailure,
              rendered |-> RenderValue(tpl, lacks),
              undefined_jinja_vars |-> IF permit_undefined_jinja THEN missing ELSE {}]

FIELDS == {"package", "source", "build", "requirements", "app", "test", "about"}

\* if not res[field]: res[field] = {}
Defaulted(res) ==
    D([i \in 1..Len(res.v) |->
         IF res.v[i][1] \in FIELDS /\ ~PyTrue(res.v[i][2])
         THEN <<res.v[i][1], D(<<>>)>> ELSE res.v[i]])

\* the test of the source field, applied to every field
BadFieldSourceShape(res, field) ==
    /\ HasKey(res, field)
    /\ Get(Defaulted(res), field, D(<<>>)).t \notin {"d", "l"}

\* the tests of lines 295-303 on a field of FIELDS that res has
BadField(res, field) ==
    /\ HasKey(res, field)
    /\ LET x == Get(Defaulted(res), field, D(<<>>))
       IN  IF field = "source" THEN x.t \notin {"d", "l"} ELSE x.t # "d"

\* ensure_valid_fields
BadPinDepends(meta) ==
    LET pin_depends == Get(Get(meta, "build", D(<<>>)), "pin_depends", S(""))
    IN  PyTrue(pin_depends) /\ pin_depends \notin {S(""), S("record"), S("strict")}

Lower(s) == IF s = "None" THEN "none" ELSE s

\* ensure_valid_noarch_value
BadNoarch(meta) ==
    /\ HasKey(meta, "build")
    /\ HasKey(Get(meta, "build", D(<<>>)), "noarch")
    /\ Lower(Get(Get(meta, "build", D(<<>>)), "noarch", S("")).v) = "none"

GitRevTags == <<"git_rev", "git_branch", "git_tag">>

\* the tags of git_rev_tags that source_meta gives a value
HasRevTags(source_meta) ==
    SelectSeq(GitRevTags, LAMBDA tag : PyTrue(Get(source_meta, tag, S(""))))

\* _git_clean, when it does not exit: git_branch and git_tag go into git_rev
RECURSIVE FoldRevTags(_, _)
FoldRevTags(ret_meta, keys) ==
    IF keys = <<>> THEN ret_meta
    ELSE LET key == Head(keys)
             set == IF PyTrue(Get(ret_meta, key, S("")))
                    THEN SetKey(ret_meta, "git_rev", Get(ret_meta, key, S("")))
                    ELSE ret_meta
         IN  FoldRevTags(DelKeys(set, {key}), Tail(keys))

git_clean(source_meta) == FoldRevTags(source_meta, Tail(GitRevTags))

\* 'None' in value
ContainsNone(value) == value = "None"

\* _trim_None_strings
RECURSIVE trim_None_strings(_)
trim_None_strings(meta_dict) ==
    LET Trimmed(value) ==
            IF value.t = "d" THEN trim_None_strings(value)
            ELSE IF value.t = "s" THEN (IF ContainsNone(value.v) THEN N ELSE value)
            ELSE IF value.t = "l" /\ value.v # <<>>
            THEN IF value.v[1].t = "d"
                 THEN L(SelectSeq([i \in 1..Len(value.v) |-> trim_None_strings(value.v[i])],
                                  PyTrue))
                 ELSE L(SelectSeq(value.v, LAMBDA i : ~ContainsNone(i.v)))
            ELSE value
    IN  trim_empty_keys(D([i \in 1..Len(meta_dict.v) |->
                              <<meta_dict.v[i][1], Trimmed(meta_dict.v[i][2])>>]))

\* the source dicts of a document whose source is a dict or a list of dicts
SourceDicts(meta) ==
    LET section_data == Get(meta, "source", D(<<>>))
    IN  IF section_data.t = "d" THEN <<section_data>> ELSE section_data.v

\* sanitize, when no _git_clean exits
sanitize(meta) ==
    LET section_data == Get(meta, "source", D(<<>>))
        cleaned == IF ~HasKey(meta, "source") THEN meta
                   ELSE IF section_data.t = "d"
                   THEN SetKey(meta, "source", git_clean(section_data))
                   ELSE SetKey(meta, "source",
                               L([i \in 1..Len(section_data.v) |->
                                      git_clean(section_data.v[i])]))
    IN  trim_None_strings(cleaned)

\* parse(data, config, path), from the document yamlize returns: the results it
\* can have.  The loop over FIELDS raises at the first field of the wrong shape
\* it meets, and FIELDS is a dict: any of them can be the first.
\* (ensure_valid_license_family is not called upon: the documents of the model
\* have no about/license_family.)
parse(data, path) ==
    LET res == IF IsNone(data) THEN D(<<>>) ELSE data
        bad == { field \in FIELDS : BadField(res, field) }
        meta == Defaulted(res)
        Raises(type, msg, field) ==
            { [err |-> Failure(type, msg, field, path, {}), meta |-> N] }
    IN  IF bad # {}
        THEN { [err |-> Failure("RuntimeError", "field should be a dict", field, path, {}),
                meta |-> N] : field \in bad }
        ELSE IF BadPinDepends(meta)
        THEN Raises("RuntimeError", "build/pin_depends must be 'record' or 'strict'", "")
        ELSE IF BadNoarch(meta)
        THEN Raises("CondaBuildException", "Invalid value for noarch", "")
        ELSE IF \E i \in 1..Len(SourceDicts(meta)) : Len(HasRevTags(SourceDicts(meta)[i])) > 1
        THEN Raises("SystemExit", "Error: multiple git_revs", "")
        ELSE { [err |-> NoFailure, meta |-> sanitize(meta)] }

\* the strings get_value takes for True (line 311)
trues == {"y", "on", "true", "yes"}

\* MetaData.final of a document: get_value('extra/final')
final_of(meta) ==
    LET extra == Get(meta, "extra", D(<<>>))
    IN  IsDict(extra) /\ Get(extra, "final", S("")) \in {S(y) : y \in trues}

\* a caller that leaves the flag as the re-parse made it
keep_parsed_final(parsed, final) == parsed

\* self.final = final after a parse_again of parse_until_resolved (lines 837,
\* 844, 851)
restore_final(parsed, final) == final

\* MetaData.append_requirements (no document of the model is an osx app)
append_requirements(meta) == SetKey(meta, "requirements", get_section(meta, "requirements"))

\* the render the script is at: after its last entry the context stays as it is
Lacks(script, renders) ==
    script[IF Len(renders) < Len(script) THEN Len(renders) + 1 ELSE Len(script)]

\* the condition of the while loop of parse_until_resolved
loop_until_empty(undefined_jinja_vars, recorded) == recorded # {}

loop_continues(undefined_jinja_vars, recorded) == undefined_jinja_vars # recorded

\* a loop body that leaves the local undefined_jinja_vars as it is
loop_keeps_local(undefined_jinja_vars, recorded) == undefined_jinja_vars

\* undefined_jinja_vars = self.undefined_jinja_vars (line 839)
loop_local(undefined_jinja_vars, recorded) == recorded

-----------------------------------------------------------------------------
(* Frames: a component's specification leaves the other components idle.   *)

EvIdle ==
    /\ ev_orig = <<>> /\ ev_str = <<>> /\ ev_ns = "none" /\ ev_first = <<>>
    /\ ev_depth = 0 /\ ev_pc = "idle" /\ ev_res = FALSE

SlIdle ==
    /\ sl_data = <<>> /\ sl_ns = "none" /\ sl_pc = "idle" /\ sl_lines = <<>>

HdIdle ==
    /\ hd_meta = <<>> /\ hd_cfg = <<>> /\ hd_files = <<>> /\ hd_base = <<>>
    /\ hd_last = <<>> /\ hd_calls = 0 /\ hd_changes = <<>>

OdIdle ==
    /\ od_map = <<>> /\ od_order = <<>> /\ od_pc = "idle" /\ od_err = NoError

PnIdle ==
    /\ pn_outputs = <<>> /\ pn_pc = "idle" /\ pn_err = NoError

RnIdle ==
    /\ rn_tpl = <<>> /\ rn_path = "" /\ rn_script = <<>> /\ rn_meta = <<>>
    /\ rn_final = FALSE /\ rn_saved = FALSE /\ rn_undef = {} /\ rn_prev = {}
    /\ rn_flag = FALSE /\ rn_text = <<>> /\ rn_parsed = FALSE /\ rn_pc = "idle"
    /\ rn_step = "idle" /\ rn_renders = <<>> /\ rn_err = NoFailure /\ rn_digests = <<>>

GsIdle ==
    /\ gs_recipe = <<>> /\ gs_variants = <<>> /\ gs_permit = <<>> /\ gs_unsat = {}
    /\ gs_done = 0 /\ gs_map = <<>> /\ gs_order = <<>> /\ gs_conda = <<>>
    /\ gs_non_conda = <<>> /\ gs_pc = "idle" /\ gs_err = NoError /\ gs_tuples = <<>>
    /\ gs_visits = <<>>

BdIdle ==
    /\ bd_top = <<>> /\ bd_m = <<>> /\ bd_pc = "idle" /\ bd_out = ""

DvIdle ==
    /\ dv_heap = <<>> /\ dv_parent = <<>> /\ dv_outs = <<>> /\ dv_start = <<>>

LpIdle ==
    /\ lp_renderer = "none" /\ lp_prev = {} /\ lp_undef = {} /\ lp_pc = "idle"
    /\ lp_iter = 0

NoDoc == [entries |-> <<>>, sanitized |-> FALSE]

StIdle ==
    /\ st_raw = <<>> /\ st_ns = "none" /\ st_permit = FALSE /\ st_pc = "idle"
    /\ st_loaded = <<>> /\ st_rendered = <<>> /\ st_undef = {} /\ st_selected = <<>>
    /\ st_doc = NoDoc /\ st_trace = <<>>

BsIdle == bs_m = <<>> /\ bs_pc = "idle" /\ bs_out = <<>>

IdleExcept(c) ==
    /\ IF c # "ev" THEN EvIdle ELSE TRUE
    /\ IF c # "sl" THEN SlIdle ELSE TRUE
    /\ IF c # "hd" THEN HdIdle ELSE TRUE
    /\ IF c # "od" THEN OdIdle ELSE TRUE
    /\ IF c # "pn" THEN PnIdle ELSE TRUE
    /\ IF c # "gs" THEN GsIdle ELSE TRUE
    /\ IF c # "rn" THEN RnIdle ELSE TRUE
    /\ IF c # "bd" THEN BdIdle ELSE TRUE
    /\ IF c # "dv" THEN DvIdle ELSE TRUE
    /\ IF c # "lp" THEN LpIdle ELSE TRUE
    /\ IF c # "st" THEN StIdle ELSE TRUE
    /\ IF c # "bs" THEN BsIdle ELSE TRUE

FrameExcept(c) ==
    /\ IF c # "ev" THEN UNCHANGED ev_vars ELSE TRUE
    /\ IF c # "sl" THEN UNCHANGED sl_vars ELSE TRUE
    /\ IF c # "hd" THEN UNCHANGED hd_vars ELSE TRUE
    /\ IF c # "od" THEN UNCHANGED od_vars ELSE TRUE
    /\ IF c # "pn" THEN UNCHANGED pn_vars ELSE TRUE
    /\ IF c # "gs" THEN UNCHANGED gs_vars ELSE TRUE
    /\ IF c # "rn" THEN UNCHANGED rn_vars ELSE TRUE
    /\ IF c # "bd" THEN UNCHANGED bd_vars ELSE TRUE
    /\ IF c # "dv" THEN UNCHANGED dv_vars ELSE TRUE
    /\ IF c # "lp" THEN UNCHANGED lp_vars ELSE TRUE
    /\ IF c # "st" THEN UNCHANGED st_vars ELSE TRUE
    /\ IF c # "bs" THEN UNCHANGED bs_vars ELSE TRUE

vars == <<ev_vars, sl_vars, hd_vars, od_vars, pn_vars, gs_vars, rn_vars, bd_vars, dv_vars,
          lp_vars, st_vars, bs_vars>>

-----------------------------------------------------------------------------
(* SpecEval: eval_selector on every selector of at most MaxWords words.    *)

Vocabulary ==
    {kwOr, kwAnd, kwNot, symLinux, symWin, symX86, symPy3k, symX, symPy3, symN, symA}

WordSeqs(n) == UNION { [1..m -> Vocabulary] : m \in 1..n }

Selectors(n) == { JoinWords(ws) : ws \in WordSeqs(n) }

EvInit ==
    /\ ev_orig \in Selectors(MaxWords)
    /\ ev_str = ev_orig
    /\ ev_ns \in Platforms
    /\ ev_first = <<>>
    /\ ev_depth = 0
    /\ ev_pc = "call"
    /\ ev_res = FALSE
    /\ IdleExcept("ev")

\* return eval(selector_string, namespace, {})
EvalReturn ==
    /\ ev_pc = "call"
    /\ PyEval(ev_str, ns_cfg(ev_ns)).k = "val"
    /\ ev_res' = PyEval(ev_str, ns_cfg(ev_ns)).v
    /\ ev_pc' = "returned"
    /\ UNCHANGED <<ev_orig, ev_str, ev_ns, ev_first, ev_depth>>
    /\ FrameExcept("ev")

\* except NameError: the recursive call on next_string
EvalRetry ==
    /\ ev_pc = "call"
    /\ PyEval(ev_str, ns_cfg(ev_ns)).k = "NameError"
    /\ ev_depth < MaxDepth
    /\ ev_str' = next_string(ev_str, PyEval(ev_str, ns_cfg(ev_ns)).n)
    /\ ev_first' = IF ev_depth = 0 THEN PyEval(ev_str, ns_cfg(ev_ns)).n ELSE ev_first
    /\ ev_depth' = ev_depth + 1
    /\ UNCHANGED <<ev_orig, ev_ns, ev_pc, ev_res>>
    /\ FrameExcept("ev")

\* any other exception of eval leaves eval_selector
EvalRaise ==
    /\ ev_pc = "call"
    /\ PyEval(ev_str, ns_cfg(ev_ns)).k \notin {"val", "NameError"}
    /\ ev_pc' = "raised"
    /\ UNCHANGED <<ev_orig, ev_str, ev_ns, ev_first, ev_depth, ev_res>>
    /\ FrameExcept("ev")

EvNext == EvalReturn \/ EvalRetry \/ EvalRaise

SpecEval == EvInit /\ [][EvNext]_vars

-----------------------------------------------------------------------------
(* SpecSelect: select_lines on every text of at most MaxLines lines.       *)

Line(content, gap, comment, sel, tail) ==
    [content |-> content, gap |-> gap, comment |-> comment, sel |-> sel, tail |-> tail]

\* the text of a line: its parts in order, the selector (if any) in brackets
Text(l) ==
    l.content \o l.gap \o l.comment
        \o (IF l.sel = <<>> THEN <<>> ELSE <<"[">> \o l.sel \o <<"]">>)
        \o l.tail

selLinux == symLinux
selWin   == symWin
selX     == symX
selPy3   == JoinWords(<<symPy3, kwOr, symPy3k>>)
selNotN  == JoinWords(<<kwNot, symN>>)

Lines ==
    \* no comment: plain, indented, comment-only and bracket-holding contents
    { Line(c, <<" ">>, <<>>, e, <<>>) :
        c \in { <<"a">>, <<" ", "a">>, <<"#", "a">>, <<"a", "[", "b", "]", "c">> },
        e \in { <<>>, selLinux, selWin, selX } }
    \cup
    \* a comment before the selector, and text after it
    { Line(<<"'", "a">>, <<" ">>, c, e, t) :
        c \in { <<"#", "c", " ">>, <<"#", "[", "w", "i", "n", "]", " ">> },
        e \in { selLinux, selWin },
        t \in { <<>>, <<"'">>, <<" ", "(">>  } }
    \cup
    { Line(<<"a">>, <<>>, <<"#">>, selLinux, <<" ">>),
      Line(<<" ", "#">>, <<" ">>, <<"#">>, selLinux, <<>>),
      Line(<<"'", "a">>, <<>>, <<>>, selWin, <<"'">>),
      Line(<<"a">>, <<" ">>, <<>>, selPy3, <<>>),
      Line(<<"a">>, <<" ">>, <<>>, selNotN, <<>>) }

Texts(n) == UNION { [1..m -> Lines] : m \in 0..n }

SlInit ==
    /\ sl_data \in Texts(MaxLines)
    /\ sl_ns \in Platforms
    /\ sl_pc = "call"
    /\ sl_lines = <<>>
    /\ IdleExcept("sl")

\* select_lines returns the text made of lines
SelectLinesReturn ==
    /\ sl_pc = "call"
    /\ LET r == select_lines([i \in 1..Len(sl_data) |-> Text(sl_data[i])],
                             ns_cfg(sl_ns), <<>>)
       IN  /\ r.k = "ok"
           /\ sl_lines' = r.lines
    /\ sl_pc' = "returned"
    /\ UNCHANGED <<sl_data, sl_ns>>
    /\ FrameExcept("sl")

\* sys.exit: invalid selector
SelectLinesExit ==
    /\ sl_pc = "call"
    /\ select_lines([i \in 1..Len(sl_data) |-> Text(sl_data[i])],
                    ns_cfg(sl_ns), <<>>).k = "exit"
    /\ sl_pc' = "exit"
    /\ UNCHANGED <<sl_data, sl_ns, sl_lines>>
    /\ FrameExcept("sl")

SlNext == SelectLinesReturn \/ SelectLinesExit

SpecSelect == SlInit /\ [][SlNext]_vars

-----------------------------------------------------------------------------
(* SpecHash: hash_dependencies called on one MetaData, whose document is   *)
(* changed between the calls.                                              *)

reqNumpy     == R(<<"numpy", "1.11">>)
reqNumpyBase == R(<<"numpy-base">>)
reqGcc       == R(<<"gcc">>)
reqCmake     == R(<<"cmake", ">=3">>)

package == <<"package", D(<< <<"name", S("pkg")>>, <<"version", S("1.0")>> >>)>>

HashDocs ==
    { \* every section, one key of the build section volatile
      D(<< package,
           <<"requirements", D(<< <<"build", L(<<reqGcc, reqNumpy>>)>>,
                                  <<"run", L(<<reqNumpy>>)>> >>)>>,
           <<"build", D(<< <<"number", S("0")>>, <<"script", S("make")>> >>)>>,
           <<"source", D(<< <<"url", S("u")>>, <<"patches", L(<<>>)>> >>)>> >>),
      \* a build section of volatile keys only, no requirements
      D(<< package,
           <<"build", D(<< <<"number", S("1")>>, <<"string", S("abc")>> >>)>> >>),
      \* a dict inside the build section, empty entries, a list of sources
      D(<< package,
           <<"build", D(<< <<"run_exports", D(<< <<"strong", L(<<>>)>>,
                                                 <<"weak", L(<<reqGcc>>)>> >>)>>,
                           <<"include_recipe", S("false")>>,
                           <<"noarch", S("python")>> >>)>>,
           <<"requirements", D(<< <<"host", L(<<reqNumpyBase>>)>>,
                                  <<"run", L(<<>>)>> >>)>>,
           <<"source", L(<< D(<< <<"url", S("u")>> >>),
                            D(<< <<"path", S("p")>> >>) >>)>>,
           <<"extra", D(<< <<"copy_test_source_files", S("true")>> >>)>> >>),
      \* no build section
      D(<< package,
           <<"requirements", D(<< <<"build", L(<<reqNumpy, reqCmake>>)>> >>)>> >>) }

HashConfigs ==
    { [ignore_version |-> <<>>, include_recipe |-> TRUE, recipe_path |-> TRUE],
      [ignore_version |-> <<"numpy">>, include_recipe |-> TRUE, recipe_path |-> FALSE],
      [ignore_version |-> <<"numpy">>, include_recipe |-> FALSE, recipe_path |-> TRUE] }

HdInit ==
    /\ hd_meta \in HashDocs
    /\ hd_cfg \in HashConfigs
    /\ hd_files = <<"bytes of build.sh", "bytes of patch">>
    /\ hd_base = NoDigest
    /\ hd_last = NoDigest
    /\ hd_calls = 0
    /\ hd_changes = <<>>
    /\ IdleExcept("hd")

\* a call of hash_dependencies
HashDependencies ==
    /\ hd_calls < MaxHashCalls
    /\ hd_last' = hash_dependencies(hd_meta, hd_cfg, hd_files)
    /\ hd_base' = IF hd_calls = 0 THEN hd_last' ELSE hd_base
    /\ hd_meta' = MetaAfterHash(hd_meta)
    /\ hd_calls' = hd_calls + 1
    /\ UNCHANGED <<hd_cfg, hd_files, hd_changes>>
    /\ FrameExcept("hd")

CanChange == hd_calls \in 1..(MaxHashCalls - 1) /\ Len(hd_changes) < MaxChanges

\* meta['build'][k] = x for one of the keys left out of the hash
SetBuildKey ==
    /\ CanChange
    /\ \E k \in VolatileKeys, x \in {"7", "generic"} :
          hd_meta' = SetKey(hd_meta, "build",
                            SetKey(get_section(hd_meta, "build"), k, S(x)))
    /\ hd_changes' = Append(hd_changes, "volatile")
    /\ UNCHANGED <<hd_cfg, hd_files, hd_base, hd_last, hd_calls>>
    /\ FrameExcept("hd")

\* del meta['build'][k] for one of the keys left out of the hash
DelBuildKey ==
    /\ CanChange
    /\ \E k \in VolatileKeys :
          /\ HasKey(get_section(hd_meta, "build"), k)
          /\ hd_meta' = SetKey(hd_meta, "build",
                               DelKeys(get_section(hd_meta, "build"), {k}))
    /\ hd_changes' = Append(hd_changes, "volatile")
    /\ UNCHANGED <<hd_cfg, hd_files, hd_base, hd_last, hd_calls>>
    /\ FrameExcept("hd")

\* the dict with the pairs at i and i + 1 in the other order
Swap(d, i) ==
    D([j \in 1..Len(d.v) |->
        IF j = i THEN d.v[i + 1] ELSE IF j = i + 1 THEN d.v[i] ELSE d.v[j]])

\* the same document with the keys of the document, or of one of its sections,
\* inserted in another order
ReorderKeys ==
    /\ CanChange
    /\ \/ \E i \in 1..(Len(hd_meta.v) - 1) : hd_meta' = Swap(hd_meta, i)
       \/ \E sec \in {"requirements", "build"} :
             /\ HasKey(hd_meta, sec)
             /\ \E i \in 1..(Len(get_section(hd_meta, sec).v) - 1) :
                   hd_meta' = SetKey(hd_meta, sec, Swap(get_section(hd_meta, sec), i))
    /\ hd_changes' = Append(hd_changes, "order")
    /\ UNCHANGED <<hd_cfg, hd_files, hd_base, hd_last, hd_calls>>
    /\ FrameExcept("hd")

HdNext == HashDependencies \/ SetBuildKey \/ DelBuildKey \/ ReorderKeys

SpecHash == HdInit /\ [][HdNext]_vars


-----------------------------------------------------------------------------
(* Claims about the selector evaluator.                                    *)

\* a line written as content, optional "#" comment, then [expr]: the selector is at
\* the end of the line, or inside a comment that no parenthesis follows
HasSelector(l) ==
    /\ l.sel # <<>>
    /\ l.comment = <<>> => RStrip(l.tail) = <<>>
    /\ \A i \in 1..Len(l.tail) : ~IsParen(l.tail[i])

Truthy(e, ns) ==
    LET r == eval_selector(e, ns, MaxDepth) IN r.k = "val" /\ r.v

Falsy(e, ns) ==
    LET r == eval_selector(e, ns, MaxDepth) IN r.k = "val" /\ ~r.v

\* the quote the line ends in, if it ends in one
EndQuote(l) ==
    LET t == RStrip(Text(l))
    IN  IF t # <<>> /\ t[Len(t)] \in {"'", "\""} THEN <<t[Len(t)]>> ELSE <<>>

\* what a line with a selector contributes: nothing, or its content and end quote
OfSelectorLine(l, ns) ==
    IF Truthy(l.sel, ns) THEN <<l.content \o EndQuote(l)>> ELSE <<>>

\* what a line without a selector contributes: itself, unless it is a comment
OfPlainLine(l) ==
    IF IsCommentLine(l.content) THEN <<>> ELSE <<RStrip(Text(l))>>

RECURSIVE ExpectedLines(_, _)
ExpectedLines(data, ns) ==
    IF data = <<>> THEN <<>>
    ELSE (IF HasSelector(Head(data)) /\ ~IsCommentLine(Head(data).content)
          THEN OfSelectorLine(Head(data), ns)
          ELSE OfPlainLine(Head(data)))
         \o ExpectedLines(Tail(data), ns)

RECURSIVE ExpectedLinesAnyLine(_, _)
ExpectedLinesAnyLine(data, ns) ==
    IF data = <<>> THEN <<>>
    ELSE (IF HasSelector(Head(data))
          THEN OfSelectorLine(Head(data), ns)
          ELSE OfPlainLine(Head(data)))
         \o ExpectedLinesAnyLine(Tail(data), ns)

\* C1 (as amended): of the lines that are not comment-only lines, every line with a
\* trailing selector is left out of the text select_lines returns when the selector
\* is falsy and contributes exactly its content, followed by the quote the line ends
\* in, when the selector is truthy; the lines kept are in the order of the input.
C1_SelectorLines ==
    sl_pc = "returned" => sl_lines = ExpectedLines(sl_data, ns_cfg(sl_ns))

\* C1 (as stated): the same of every line with a trailing selector, the comment-only
\* lines included.
C1_AsStated ==
    sl_pc = "returned" => sl_lines = ExpectedLinesAnyLine(sl_data, ns_cfg(sl_ns))

\* C1 witness: a text of two lines was filtered; the first has a falsy selector and
\* is gone, the second has a truthy one in a comment, ends in a quote, and is kept
\* as its content and that quote.
C1_Witness ==
    /\ sl_pc = "returned"
    /\ Len(sl_data) = 2
    /\ HasSelector(sl_data[1]) /\ Falsy(sl_data[1].sel, ns_cfg(sl_ns))
    /\ HasSelector(sl_data[2]) /\ Truthy(sl_data[2].sel, ns_cfg(sl_ns))
    /\ sl_data[2].comment # <<>>
    /\ EndQuote(sl_data[2]) = <<"'">>
    /\ sl_lines = << <<"'", "a", "'">> >>

\* every occurrence of the name x as a word of s replaced by False
ReplaceName(s, x) ==
    LET ws == Words(s)
    IN  JoinWords([i \in 1..Len(ws) |-> IF ws[i] = x THEN kwFalse ELSE ws[i]])

\* how a call of eval_selector ended
Outcome(r) == IF r.k = "val" THEN r ELSE [k |-> "raised"]

\* C2: when the selector names a symbol X that the namespace lacks, eval_selector
\* ends as the evaluation of the selector with every occurrence of the name X, and
\* nothing else, replaced by False ends: with the same value.
C2_UnknownIsFalse ==
    (ev_pc \in {"returned", "raised"} /\ ev_first # <<>>) =>
        (IF ev_pc = "returned" THEN Val(ev_res) ELSE [k |-> "raised"])
            = Outcome(eval_selector(ReplaceName(ev_orig, ev_first),
                                    ns_cfg(ev_ns), MaxDepth))

\* the recursion of eval_selector stays within the depth the model follows
EvDepthInBound == ev_depth < MaxDepth

\* the free symbols of a selector: its names that the namespace does not define
FreeSymbols(s, ns) ==
    { w \in Range(Words(s)) : ~IsKeyword(w) /\ LookUp(w, ns).k = "NameError" }

C18_WitnessFalseAgain ==
    /\ ev_orig = JoinWords(<<symX, kwOr, symA>>)
    /\ ev_depth = 3
    /\ ev_pc = "returned"

-----------------------------------------------------------------------------
(* Claims about the hash.                                                  *)

\* C3: hash_dependencies returns the digest it returned before when, since then, only
\* build/number, build/string, build/noarch and build/noarch_python have been set,
\* changed or deleted in the document.
C3_HashStable ==
    (hd_calls >= 2 /\ hd_changes # <<>> /\ Range(hd_changes) = {"volatile"}) =>
        hd_last = hd_base

\* C3 witness: a second call was made after the build string was set and another of
\* the four keys changed, on a document whose hash covers a build section.
C3_Witness ==
    /\ hd_calls = 2
    /\ hd_changes = <<"volatile", "volatile">>
    /\ Get(get_section(hd_meta, "build"), "string", S("")) = S("generic")
    /\ HasKey(get_section(hd_meta, "build"), "script")
    /\ hd_last = hd_base

HashedSections == {"requirements", "build", "source"}

C28_SectionKeysKept ==
    [][HashDependencies =>
           /\ Len(hd_meta'.v) = Len(hd_meta.v)
           /\ \A i \in 1..Len(hd_meta.v) :
                  LET old == hd_meta.v[i][2]
                      new == hd_meta'.v[i][2]
                  IN  /\ hd_meta'.v[i][1] = hd_meta.v[i][1]
                      /\ IF hd_meta.v[i][1] \in HashedSections /\ IsDict(old)
                         THEN /\ IsDict(new) /\ Len(new.v) = Len(old.v)
                              /\ \A j \in 1..Len(old.v) :
                                     /\ new.v[j][1] = old.v[j][1]
                                     /\ ~IsDict(old.v[j][2]) => new.v[j] = old.v[j]
                         ELSE new = old]_vars

\* after a call the mapping build/run_exports of the document has lost its empty
\* entry strong
C28_NestedEntryLost ==
    /\ hd_calls = 1
    /\ hd_changes = <<>>
    /\ HasKey(get_section(hd_meta, "build"), "run_exports")
    /\ Keys(Get(get_section(hd_meta, "build"), "run_exports", D(<<>>))) = {"weak"}
    /\ HasKey(get_section(hd_meta, "requirements"), "run")

-----------------------------------------------------------------------------
(* SpecOrder: the ordering steps of get_output_metadata_set, toposort and   *)
(* then check_circular_dependencies, on every map of at most MaxOutputs     *)
(* outputs.                                                                 *)

Requirements(build, run) == [build |-> build, host |-> <<>>, run |-> run]

RunChoices ==
    { <<>>, << <<"a">> >>, << <<"b", "1.0">> >>, << <<"c">> >>,
      << <<"a">>, <<"b", "1.0">> >> }

\* the descriptors an entry of the map is drawn from: conda outputs without a type
\* key, with requirements on each other; a wheel of the name of one of them; a wheel
\* and a conda output without a name; two outputs that need each other at build
\* time, and two more that close a cycle of three at build time
Descriptors ==
    { [name |-> n, type |-> NoType, reqs |-> Requirements(<<>>, run)] :
          n \in {"a", "b", "c"}, run \in RunChoices }
    \cup { [name |-> "a", type |-> "wheel", reqs |-> Requirements(<<>>, <<>>)],
           [name |-> NoName, type |-> "wheel", reqs |-> Requirements(<<>>, <<>>)],
           [name |-> NoName, type |-> "conda", reqs |-> Requirements(<<>>, <<>>)],
           [name |-> "a", type |-> "conda", reqs |-> Requirements(<< <<"b">> >>, <<>>)],
           [name |-> "b", type |-> "conda", reqs |-> Requirements(<< <<"a", "1.0">> >>, <<>>)],
           [name |-> "b", type |-> "conda", reqs |-> Requirements(<< <<"c">> >>, <<>>)],
           [name |-> "c", type |-> "conda", reqs |-> Requirements(<< <<"a">> >>, <<>>)] }

\* the recipe the outputs are declared in
TopLevel == [name |-> "top", variant |-> "2.7"]

OdInit ==
    /\ IdleExcept("od")
    \* out_metadata_map[HashableDict(out)] = om.get_output_metadata(out): the keys
    \* of the map are different descriptors
    /\ \E n \in 1..MaxOutputs : \E ds \in [1..n -> Descriptors] :
           /\ \A i, j \in 1..n : i # j => ds[i] # ds[j]
           /\ od_map = [i \in 1..n |->
                            [d |-> ds[i], m |-> get_output_metadata(TopLevel, ds[i])]]
    /\ od_order = <<>>
    /\ od_pc = "start"
    /\ od_err = NoError

\* render_order = toposort(out_metadata_map, phase='run')
Toposort ==
    /\ od_pc = "start"
    /\ LET r == toposort(od_map, "run")
       IN  IF r.raised = "none"
           THEN /\ od_order' = r.order
                /\ od_pc' = "sorted"
                /\ od_err' = od_err
           ELSE /\ od_order' = od_order
                /\ od_pc' = "raised"
                /\ od_err' = [type |-> r.raised, pairs |-> <<>>]
    /\ UNCHANGED od_map
    /\ FrameExcept("od")

\* check_circular_dependencies(render_order)
CheckCircularDependencies ==
    /\ od_pc = "sorted"
    /\ LET pairs == check_circular_dependencies(od_order)
       IN  IF pairs = <<>>
           THEN od_pc' = "checked" /\ od_err' = od_err
           ELSE od_pc' = "raised" /\ od_err' = [type |-> "RecipeError", pairs |-> pairs]
    /\ UNCHANGED <<od_map, od_order>>
    /\ FrameExcept("od")

OdNext == Toposort \/ CheckCircularDependencies

SpecOrder == OdInit /\ [][OdNext]_vars


-----------------------------------------------------------------------------
(* Claims about the ordering of outputs.                                    *)

\* output e has a run requirement that names output f
RunDependsOn(e, f) ==
    e # f /\ \E dep \in Range(e.m.reqs.run) : Names(f.d.name, dep)

\* no output depends on itself through a chain of run requirements: the outputs
\* can be ranked so that every output ranks above what it depends on
Acyclic(map) ==
    \E rank \in [1..Len(map) -> 1..Len(map)] :
        \A i, j \in 1..Len(map) :
            RunDependsOn(map[i], map[j]) => rank[j] < rank[i]

AllConda(map) == \A i \in 1..Len(map) : IsConda(map[i].d)

ToposortReturned == od_pc \in {"sorted", "checked"} \/ od_err.type = "RecipeError"

\* every output of map is in order, after every output it run-depends on
InDependencyOrder(map, order) ==
    \A i \in 1..Len(map) :
        /\ \E p \in 1..Len(order) : order[p] = map[i]
        /\ \A j \in 1..Len(map) :
               RunDependsOn(map[i], map[j]) =>
                   \E p, q \in 1..Len(order) :
                       order[p] = map[i] /\ order[q] = map[j] /\ q < p

\* C5: for every acyclic set of conda-type outputs, toposort(phase='run') returns an
\* order in which each output appears after every other output that it run-depends
\* on.
C5_DependencyOrder ==
    (od_pc # "start" /\ AllConda(od_map) /\ Acyclic(od_map)) =>
        (ToposortReturned /\ InDependencyOrder(od_map, od_order))


\* the positions of an entry of the map in the order returned
PlacesOf(entry) == { j \in 1..Len(od_order) : od_order[j] = entry }

\* C21: toposort returns every output of its input exactly once: the conda-type
\* outputs first, followed by the outputs of any other type in the order they
\* were declared in; no output is dropped or duplicated.
C21_EveryOutputOnce ==
    (od_pc \in {"sorted", "checked"}) =>
        /\ \A i \in 1..Len(od_map) : Cardinality(PlacesOf(od_map[i])) = 1
        /\ Len(od_order) = Len(od_map)
        /\ \A j, k \in 1..Len(od_order) :
               (~IsConda(od_order[j].d) /\ IsConda(od_order[k].d)) => k < j
        /\ \A i, k \in 1..Len(od_map) :
               (i < k /\ ~IsConda(od_map[i].d) /\ ~IsConda(od_map[k].d)) =>
                   \A p \in PlacesOf(od_map[i]), q \in PlacesOf(od_map[k]) : p < q

OrderingEnded == od_pc \in {"checked", "raised"}

\* a requirement of m, in any of its build, host and run sections, names o
Requires(m, o) ==
    \E env \in {"build", "host", "run"} : \E dep \in Range(m.reqs[env]) :
        Names(o.name, dep)

\* the pairs of outputs handed to check_circular_dependencies that depend on
\* each other, by their places
MutualPlaces ==
    { p \in (1..Len(od_order)) \X (1..Len(od_order)) :
          /\ p[1] < p[2]
          /\ Requires(od_order[p[1]].m, od_order[p[2]].m)
          /\ Requires(od_order[p[2]].m, od_order[p[1]].m) }

\* three outputs handed to check_circular_dependencies each require the next
CycleOfThree ==
    \E i, j, k \in 1..Len(od_order) :
        /\ i # j /\ j # k /\ i # k
        /\ Requires(od_order[i].m, od_order[j].m)
        /\ Requires(od_order[j].m, od_order[k].m)
        /\ Requires(od_order[k].m, od_order[i].m)

CircularChecked == od_pc = "checked" \/ od_err.type = "RecipeError"

C27_WitnessCycleOfThree ==
    /\ od_pc = "checked"
    /\ CycleOfThree
    /\ MutualPlaces = {}

\* C6: whenever two outputs A and B of the map each run-depend on the other, the
\* ordering steps of get_output_metadata_set end in the circular-dependency error
\* (RecipeError) whose message has the line of the pair A <-> B.
C6_CircularError ==
    \A i, j \in 1..Len(od_map) :
        (/\ OrderingEnded
         /\ RunDependsOn(od_map[i], od_map[j])
         /\ RunDependsOn(od_map[j], od_map[i])) =>
            /\ od_err.type = "RecipeError"
            /\ \/ <<od_map[i].m.name, od_map[j].m.name>> \in Range(od_err.pairs)
               \/ <<od_map[j].m.name, od_map[i].m.name>> \in Range(od_err.pairs)


-----------------------------------------------------------------------------
(* SpecPins: ensure_matching_hashes on every map of at most MaxPinned       *)
(* finalized outputs: producers named a, consumers named b.                 *)

PinnedVariants == {"2.7", "3.6"}

\* the producers: final with a hashed build id under either variant, with a literal
\* build string, and one whose resolution was tolerated and that is not final
Producers ==
    LET P(variant, string, hash, final) ==
            [name |-> "a", variant |-> variant, final |-> final,
             filename_hashing |-> TRUE, string |-> string,
             pins |-> PythonPin(IF variant = "2.7" THEN <<"2", "7">> ELSE <<"3", "6">>),
             noarch |-> "", noarch_python |-> FALSE, numpy_xx |-> FALSE,
             features |-> <<>>,
             number |-> "0", hash |-> hash, meta_path |-> "meta.yaml",
             raw |-> IF string = NoString THEN "none" ELSE "literal",
             uses_hash |-> FALSE,
             reqs |-> Requirements(<< <<"python">> >>, << <<"python">> >>),
             run_exports |-> ExportsList(<<>>)]
    IN  { P("2.7", NoString, "h1a", TRUE),
          P("3.6", NoString, "h2b", TRUE),
          P("2.7", <<"s1">>, "h1a", TRUE),
          P("2.7", NoString, "h1a", FALSE) }

ExactPins == { <<"a", "1.0", "py27h1a_0">>, <<"a", "1.0", "py36h2b_0">> }

OtherPins ==
    { <<"a">>, <<"a", "1.0">>, <<"a", "1.0", "s1">>, <<"a", "1.0", "py27_0">>,
      <<"ab", "1.0", "py36h2b_0">>, <<"a", "1.0", "py36h2b_0", "x">> }

\* where a consumer has its requirement
Placements(dep) ==
    LET none == [build |-> <<>>, host |-> <<>>, run |-> <<>>]
    IN  { [reqs |-> [none EXCEPT ![env] = <<dep>>], run_exports |-> ExportsList(<<>>)] :
              env \in {"build", "host", "run"} }
        \cup { [reqs |-> none, run_exports |-> ExportsList(<<dep>>)],
               [reqs |-> none, run_exports |-> ExportsDict(<<dep>>, <<>>)],
               [reqs |-> none, run_exports |-> ExportsDict(<<>>, <<dep>>)] }

Consumers ==
    LET C(variant, at) ==
            [name |-> "b", variant |-> variant, final |-> TRUE,
             filename_hashing |-> TRUE, string |-> NoString,
             pins |-> NoPins, noarch |-> "", noarch_python |-> FALSE,
             numpy_xx |-> FALSE, features |-> <<>>,
             number |-> "0", hash |-> "h3c", meta_path |-> "meta.yaml",
             raw |-> "none", uses_hash |-> FALSE,
             reqs |-> at.reqs, run_exports |-> at.run_exports]
        places == UNION { Placements(dep) : dep \in ExactPins }
                  \cup { [reqs |-> Requirements(<<>>, <<dep>>),
                          run_exports |-> ExportsList(<<>>)] : dep \in OtherPins }
                  \cup { [reqs |-> Requirements(<<>>, <<>>),
                          run_exports |-> ExportsList(<<>>)] }
    IN  { C(variant, at) : variant \in PinnedVariants, at \in places }

PnInit ==
    /\ IdleExcept("pn")
    \* conda_packages[m.name(), HashableDict(m.config.variant)] = (output_d, m):
    \* the entries of the map have different keys
    /\ \E n \in 1..MaxPinned : \E ms \in [1..n -> Producers \cup Consumers] :
           /\ \A i, j \in 1..n :
                  i # j => <<ms[i].name, ms[i].variant>> # <<ms[j].name, ms[j].variant>>
           /\ pn_outputs = [i \in 1..n |->
                                [key |-> <<ms[i].name, ms[i].variant>>, m |-> ms[i]]]
    /\ pn_pc = "start"
    /\ pn_err = NoError

\* ensure_matching_hashes(conda_packages)
EnsureMatchingHashes ==
    /\ pn_pc = "start"
    /\ LET problemos == ensure_matching_hashes(pn_outputs)
       IN  IF problemos = <<>>
           THEN pn_pc' = "returned" /\ pn_err' = pn_err
           ELSE pn_pc' = "raised" /\ pn_err' = [type |-> "RecipeError", pairs |-> problemos]
    /\ UNCHANGED pn_outputs
    /\ FrameExcept("pn")

PnNext == EnsureMatchingHashes

SpecPins == PnInit /\ [][PnNext]_vars

-----------------------------------------------------------------------------
(* Claims about exact pins.                                                 *)

\* the requirements and run_exports of an output
DeclaredDeps(n) ==
    Range(n.reqs.build) \cup Range(n.reqs.host) \cup Range(n.reqs.run)
        \cup Range(n.run_exports.list) \cup Range(n.run_exports.strong)
        \cup Range(n.run_exports.weak)

\* N has an entry '<M name> <version> <build>' whose build is not M.build_id()
PinMismatch(m, n) ==
    \E dep \in DeclaredDeps(n) :
        Len(dep) = 3 /\ dep[1] = m.name /\ dep[3] # build_id(m)

MismatchedPairs ==
    { <<i, j>> \in (1..Len(pn_outputs)) \X (1..Len(pn_outputs)) :
          i # j /\ PinMismatch(pn_outputs[i].m, pn_outputs[j].m) }

\* C7: when the build, host or run requirements or the run_exports of an output N
\* have an entry of exactly three tokens that starts with the name of another
\* output M and does not end in M.build_id(), ensure_matching_hashes raises the
\* mismatch error, whose message lists every such pair (M, N) and no other pair;
\* when there is no such entry for any pair it returns without raising.
C7_HashPins ==
    pn_pc \in {"returned", "raised"} =>
        IF MismatchedPairs # {}
        THEN /\ pn_pc = "raised"
             /\ pn_err.type = "RecipeError"
             /\ Range(pn_err.pairs) =
                    { <<pn_outputs[p[1]].m.name, pn_outputs[p[2]].m.name>> :
                          p \in MismatchedPairs }
        ELSE pn_pc = "returned" /\ pn_err = NoError

\* C7 witness: the check raised for a consumer whose host requirements pin another
\* build of the producer than the one in the map, and listed that pair.
C7_Witness ==
    /\ pn_pc = "raised"
    /\ Len(pn_outputs) = 2
    /\ pn_outputs[1].m.name = "a" /\ build_id(pn_outputs[1].m) = "py27h1a_0"
    /\ pn_outputs[2].m.reqs.host = << <<"a", "1.0", "py36h2b_0">> >>
    /\ pn_err.pairs = << <<"a", "b">> >>

\* C7 witness of the other half: the check returned for a consumer whose pin is the
\* build id of the producer.
C7_WitnessReturned ==
    /\ pn_pc = "returned"
    /\ Len(pn_outputs) = 2
    /\ build_id(pn_outputs[1].m) = "py27h1a_0"
    /\ pn_outputs[2].m.reqs.run = << <<"a", "1.0", "py27h1a_0">> >>

\* the entries of three tokens that name an output of the map
ExactPinsOf(n) ==
    { dep \in DeclaredDeps(n) :
          Len(dep) = 3 /\ \E i \in 1..Len(pn_outputs) : pn_outputs[i].m.name = dep[1] }

\* every exact pin of every output is the build id of the producer rendered
\* under the variant of that output
PinsMatchWithinVariants ==
    \A j \in 1..Len(pn_outputs) :
        \A dep \in ExactPinsOf(pn_outputs[j].m) :
            \E i \in 1..Len(pn_outputs) :
                /\ i # j
                /\ pn_outputs[i].m.name = dep[1]
                /\ pn_outputs[i].m.variant = pn_outputs[j].m.variant
                /\ build_id(pn_outputs[i].m) = dep[3]

\* C30: the check of the exact pins does not raise for a recipe rendered under
\* several variants when, within each variant, every exact pin of a consumer is
\* the build_id of the producer of that variant: a pin is compared with the
\* producer rendered for the consumer's own variant only, not with the producers
\* of the same name of other variants.
C30_SameVariantOnly ==
    (pn_pc \in {"returned", "raised"} /\ PinsMatchWithinVariants) => pn_pc = "returned"

\* a under 2.7 and 3.6 and b under 2.7, pinned to the a of 2.7: the check raises
\* for the a of 3.6
C30_OtherVariantCompared ==
    /\ pn_pc = "raised"
    /\ PinsMatchWithinVariants
    /\ Len(pn_outputs) = 3
    /\ \E j \in 1..3 : ExactPinsOf(pn_outputs[j].m) # {}
    /\ pn_err.pairs = << <<"a", "b">> >>


-----------------------------------------------------------------------------
(* Spec: get_output_metadata_set on a MetaData that is not final, for every *)
(* recipe of Recipes under at most MaxVariants variants.                    *)

Plain(tokens) == [tokens |-> tokens, pin |-> FALSE]
Pinned(tokens) == [tokens |-> tokens, pin |-> TRUE]

Declared(name, type, run) ==
    [name |-> name, type |-> type, reqs |-> Requirements(<<>>, run)]

\* the run requirements of the top level: none, python, python pinned to the
\* variant, the sub-package a
TopRuns ==
    { <<>>, <<Plain(<<"python">>)>>, <<Pinned(<<"python">>)>>, <<Plain(<<"a">>)>> }

\* the outputs sections: none; a and b, b needing a; the same declared the other
\* way round; a pinned to the variant and a wheel; a and b needing each other; a
\* and a wheel without a name
OutputSections ==
    { <<>>,
      <<Declared("a", NoType, <<>>), Declared("b", NoType, <<Plain(<<"a">>)>>)>>,
      <<Declared("b", NoType, <<Plain(<<"a", "1.0">>)>>), Declared("a", NoType, <<>>)>>,
      <<Declared("a", NoType, <<Pinned(<<"python">>)>>), Declared("w", "wheel", <<>>)>>,
      <<Declared("a", NoType, <<Plain(<<"b">>)>>), Declared("b", NoType, <<Plain(<<"a">>)>>)>>,
      <<Declared("a", NoType, <<>>), Declared(NoName, "wheel", <<>>)>> }

Recipes ==
    { [name |-> "top", reqs |-> Requirements(<<>>, run), outputs |-> outputs] :
          run \in TopRuns, outputs \in OutputSections }

VariantValues == {"2.7", "3.5", "3.6"}

\* what the solver cannot resolve: nothing; the top level or a in one round; a in
\* the three rounds; a in the loop after them
SolverGaps ==
    { {}, {<<"top", 0>>}, {<<"a", 1>>}, {<<"a", 0>>, <<"a", 1>>, <<"a", 2>>},
      {<<"a", 3>>} }

GsInit ==
    /\ IdleExcept("gs")
    /\ gs_recipe \in Recipes
    /\ \E n \in 1..MaxVariants : \E vs \in [1..n -> VariantValues] :
           /\ \A i, j \in 1..n : i # j => vs[i] # vs[j]
           /\ gs_variants = vs
    /\ gs_permit \in [jinja : BOOLEAN, unsat : BOOLEAN]
    /\ gs_unsat \in SolverGaps
    /\ gs_done = 0
    /\ gs_map = <<>>
    /\ gs_order = <<>>
    /\ gs_conda = <<>>
    /\ gs_non_conda = <<>>
    /\ gs_pc = "variants"
    /\ gs_err = NoError
    /\ gs_tuples = <<>>
    /\ gs_visits = <<>>

\* one pass of the loop over the variants (lines 1693-1711)
RenderVariant ==
    /\ gs_pc = "variants"
    /\ gs_done < Len(gs_variants)
    /\ LET om == RenderRecipe(gs_recipe, gs_variants[gs_done + 1])
       IN  gs_map' = PutOutputs(gs_map, om, get_output_dicts_from_metadata(om))
    /\ gs_done' = gs_done + 1
    /\ UNCHANGED <<gs_recipe, gs_variants, gs_permit, gs_unsat, gs_order, gs_conda,
                   gs_non_conda, gs_pc, gs_err, gs_tuples, gs_visits>>
    /\ FrameExcept("gs")

\* toposort, check_circular_dependencies and the classification (lines 1716-1742)
OrderOutputs ==
    /\ gs_pc = "variants"
    /\ gs_done = Len(gs_variants)
    /\ LET sorted == toposort(gs_map, "run")
           pairs == check_circular_dependencies(sorted.order)
       IN  IF sorted.raised # "none"
           THEN /\ gs_pc' = "raised"
                /\ gs_err' = [type |-> sorted.raised, pairs |-> <<>>]
                /\ UNCHANGED <<gs_order, gs_conda, gs_non_conda>>
           ELSE IF pairs # <<>>
           THEN /\ gs_pc' = "raised"
                /\ gs_err' = [type |-> "RecipeError", pairs |-> pairs]
                /\ gs_order' = sorted.order
                /\ UNCHANGED <<gs_conda, gs_non_conda>>
           ELSE /\ gs_pc' = "ordered"
                /\ gs_err' = gs_err
                /\ gs_order' = sorted.order
                /\ gs_conda' = CondaPackages(sorted.order)
                /\ gs_non_conda' = NonCondaPackages(sorted.order)
    /\ UNCHANGED <<gs_recipe, gs_variants, gs_permit, gs_unsat, gs_done, gs_map,
                   gs_tuples, gs_visits>>
    /\ FrameExcept("gs")

\* conda_packages = finalize_outputs_pass(self, conda_packages, pass_no=0, ...)
FinalizeOutputs ==
    /\ gs_pc = "ordered"
    /\ ~gs_permit.jinja
    /\ LET r == finalize_outputs_pass(gs_recipe, gs_conda, 0, gs_unsat, gs_permit.unsat)
       IN  /\ gs_visits' = r.visits
           /\ IF r.raised # "none"
              THEN /\ gs_pc' = "raised"
                   /\ gs_err' = [type |-> r.raised, pairs |-> <<>>]
                   /\ gs_conda' = gs_conda
              ELSE /\ gs_pc' = "finalized"
                   /\ gs_err' = gs_err
                   /\ gs_conda' = r.outputs
    /\ UNCHANGED <<gs_recipe, gs_variants, gs_permit, gs_unsat, gs_done, gs_map,
                   gs_order, gs_non_conda, gs_tuples>>
    /\ FrameExcept("gs")

\* ensure_matching_hashes(conda_packages) (line 1767)
CheckPins ==
    /\ gs_pc = "finalized"
    /\ LET problemos == ensure_matching_hashes(gs_conda)
       IN  IF problemos = <<>>
           THEN gs_pc' = "pinned" /\ gs_err' = gs_err
           ELSE gs_pc' = "raised" /\ gs_err' = [type |-> "RecipeError", pairs |-> problemos]
    /\ UNCHANGED <<gs_recipe, gs_variants, gs_permit, gs_unsat, gs_done, gs_map,
                   gs_order, gs_conda, gs_non_conda, gs_tuples, gs_visits>>
    /\ FrameExcept("gs")

\* the marking as final and the return of output_tuples (lines 1773-1778)
ReturnTuples ==
    /\ \/ gs_pc = "pinned"
       \/ gs_pc = "ordered" /\ gs_permit.jinja
    /\ gs_tuples' = OutputTuples(gs_conda, gs_non_conda)
    /\ gs_pc' = "returned"
    /\ UNCHANGED <<gs_recipe, gs_variants, gs_permit, gs_unsat, gs_done, gs_map,
                   gs_order, gs_conda, gs_non_conda, gs_err, gs_visits>>
    /\ FrameExcept("gs")

Next == RenderVariant \/ OrderOutputs \/ FinalizeOutputs \/ CheckPins \/ ReturnTuples

Spec == GsInit /\ [][Next]_vars


-----------------------------------------------------------------------------
(* Claims about the variants of a recipe with no outputs section.           *)

\* the descriptor synthesized from the top level under a variant
TopDescriptor(variant) ==
    output_dict_from_top_level_meta(RenderRecipe(gs_recipe, variant))

NoOutputsReturned == gs_pc = "returned" /\ gs_recipe.outputs = <<>>

\* the variant is the last one of config.variants that gives its descriptor
LastOfDescriptor(i) ==
    \A j \in (i + 1)..Len(gs_variants) :
        TopDescriptor(gs_variants[j]) # TopDescriptor(gs_variants[i])

C8_WitnessCollapsed ==
    /\ NoOutputsReturned
    /\ ~gs_permit.jinja
    /\ Len(gs_variants) = 2
    /\ TopDescriptor(gs_variants[1]) = TopDescriptor(gs_variants[2])
    /\ Len(gs_tuples) = 1
    /\ gs_tuples[1].m.variant = gs_variants[2]

\* the descriptors the i-th variant produces
DescriptorsOf(i) ==
    get_output_dicts_from_metadata(RenderRecipe(gs_recipe, gs_variants[i]))

\* the descriptors of the variants processed so far
Produced == UNION {Range(DescriptorsOf(i)) : i \in 1..gs_done}

Rendered(i) == RenderRecipe(gs_recipe, gs_variants[i])

\* a run requirement of the top level names a declared output
ReferencesSubpackage(m) ==
    \E out \in Range(m.outputs) : \E req \in Range(m.reqs.run) :
        out.name # NoName /\ Names(out.name, req)

\* a run requirement of the top level names the last output that has a name
ReferencesLastNamed(m) ==
    \E k \in 1..Len(m.outputs) : \E req \in Range(m.reqs.run) :
        /\ m.outputs[k].name # NoName
        /\ \A l \in (k + 1)..Len(m.outputs) : m.outputs[l].name = NoName
        /\ Names(m.outputs[k].name, req)

DeclaresTopLevel(m) == \E out \in Range(m.outputs) : out.name = m.name

\* C26: get_output_dicts_from_metadata returns exactly one descriptor, made from
\* the top level, when the document has no outputs section; otherwise it returns
\* the declared descriptors plus one made from the top level exactly when the
\* top-level requirements reference a declared sub-package and no declared output
\* has the top-level name; a second call on the same Metadata returns the same
\* list, without a second top-level descriptor.
C26_TopLevelDescriptor ==
    gs_pc # "idle" =>
        \A i \in 1..gs_done :
            LET m == Rendered(i)
                top == output_dict_from_top_level_meta(m)
                dicts == get_output_dicts_from_metadata(m)
            IN  /\ m.outputs = <<>> => dicts = <<top>>
                /\ m.outputs # <<>> =>
                       dicts = IF ReferencesSubpackage(m) /\ ~DeclaresTopLevel(m)
                               THEN Append(m.outputs, top)
                               ELSE m.outputs
                /\ get_output_dicts_from_metadata(after_get_output_dicts(m)) = dicts

\* what the code does: only the last output that has a name is looked for in the
\* run requirements of the top level
C26_LastNamedDecides ==
    gs_pc # "idle" =>
        \A i \in 1..gs_done :
            LET m == Rendered(i)
                top == output_dict_from_top_level_meta(m)
                dicts == get_output_dicts_from_metadata(m)
            IN  /\ m.outputs = <<>> => dicts = <<top>>
                /\ m.outputs # <<>> =>
                       dicts = IF ReferencesLastNamed(m) /\ ~DeclaresTopLevel(m)
                               THEN Append(m.outputs, top)
                               ELSE m.outputs
                /\ get_output_dicts_from_metadata(after_get_output_dicts(m)) = dicts

\* the top level needs a, the first of the outputs a and b: no descriptor for
\* the top level
C26_FirstNamedIgnored ==
    /\ gs_pc = "variants" /\ gs_done = 1
    /\ ReferencesSubpackage(Rendered(1))
    /\ Len(gs_recipe.outputs) = 2
    /\ \A k \in 1..Len(gs_map) : gs_map[k].d.name # gs_recipe.name

\* the top level needs a, the last of the outputs b and a: a descriptor for the
\* top level, once
C26_LastNamedFound ==
    /\ gs_pc = "variants" /\ gs_done = 1
    /\ ReferencesLastNamed(Rendered(1))
    /\ Len(gs_map) = 3
    /\ gs_map[3].d.name = gs_recipe.name
    /\ Len(get_output_dicts_from_metadata(after_get_output_dicts(Rendered(1)))) = 3

-----------------------------------------------------------------------------
(* SpecBuild: build_id of a recipe, or of an output derived from it, before *)
(* and after it is marked final.                                            *)

\* what a recipe can say of its build string: nothing; a literal in the head of
\* the file; a literal with a disallowed character; the hash placeholder, which
\* renders to a digest; a literal in a build section that the file has after its
\* requirements section
BuildTexts ==
    { [raw |-> "none", string |-> NoString, uses_hash |-> FALSE],
      [raw |-> "literal", string |-> <<"custom">>, uses_hash |-> FALSE],
      [raw |-> "literal", string |-> <<"custom", "_", "1">>, uses_hash |-> FALSE],
      [raw |-> "literal", string |-> <<"my", "-", "build">>, uses_hash |-> FALSE],
      [raw |-> "placeholder", string |-> <<"h0f", "_", "0">>, uses_hash |-> TRUE],
      [raw |-> "none", string |-> <<"custom", "_", "1">>, uses_hash |-> FALSE] }

\* the outputs: a sub-package that declares nothing, one with the legacy key
\* string, two with a build section (a literal, the placeholder), and an output
\* with the name of the recipe and a literal
OutputBuilds ==
    LET O(name, has_string, string, has_build, build_string, uses_hash) ==
            [name |-> name, has_string |-> has_string, string |-> string,
             has_build |-> has_build, build_string |-> build_string,
             uses_hash |-> uses_hash]
    IN  { O("sub", FALSE, NoString, FALSE, NoString, FALSE),
          O("sub", TRUE, <<"custom", "_", "1">>, FALSE, NoString, FALSE),
          O("sub", FALSE, NoString, TRUE, <<"custom">>, FALSE),
          O("sub", FALSE, NoString, TRUE, <<"h0f", "_", "0">>, TRUE),
          O("pkg", FALSE, NoString, TRUE, <<"custom", "_", "1">>, FALSE) }

\* reconcile_metadata_with_output_dict: the name of the output, and no path
reconcile_metadata_with_output_dict(output_metadata, output_dict) ==
    [output_metadata EXCEPT !.name = output_dict.name, !.meta_path = ""]

\* get_output_metadata, for the build string (lines 1600-1602, 1646, 1660-1676)
OutputBuild(self, output) ==
    LET output_metadata == IF self.name # output.name
                           THEN reconcile_metadata_with_output_dict(self, output)
                           ELSE self
        declared == output.has_build \/ output.has_string
    IN  [output_metadata EXCEPT
             !.final = FALSE,
             !.hash = "h2b",
             !.string = IF output.has_build THEN output.build_string
                        ELSE IF output.has_string THEN output.string
                        ELSE self.string,
             !.uses_hash = IF declared THEN output.uses_hash ELSE self.uses_hash]

BdInit ==
    /\ IdleExcept("bd")
    /\ \E text \in BuildTexts, python \in {<<>>, << <<"python">> >>}, hashing \in BOOLEAN,
          features \in {<<>>, <<"1">>} :
           bd_top = [name |-> "pkg", meta_path |-> "meta.yaml", raw |-> text.raw,
                     string |-> text.string, uses_hash |-> text.uses_hash,
                     reqs |-> Requirements(python, python),
                     pins |-> PythonPin(<<"2", "7">>),
                     noarch |-> "", noarch_python |-> FALSE, numpy_xx |-> FALSE,
                     features |-> features, number |-> "0", hash |-> "h1a",
                     filename_hashing |-> hashing, final |-> FALSE]
    /\ bd_m = bd_top
    /\ bd_pc = "top"
    /\ bd_out = ""

\* om.get_output_metadata(output)
GetOutputMetadata ==
    /\ bd_pc = "top"
    /\ ~bd_m.final
    /\ \E output \in OutputBuilds : bd_m' = OutputBuild(bd_top, output)
    /\ bd_pc' = "output"
    /\ UNCHANGED <<bd_top, bd_out>>
    /\ FrameExcept("bd")

\* m.final = True
MarkFinal ==
    /\ bd_pc \in {"top", "output"}
    /\ ~bd_m.final
    /\ bd_m' = [bd_m EXCEPT !.final = TRUE]
    /\ UNCHANGED <<bd_top, bd_pc, bd_out>>
    /\ FrameExcept("bd")

\* m.build_id()
BuildId ==
    /\ bd_pc \in {"top", "output"}
    /\ IF extract_package_and_build_text(bd_m) = "literal" /\ check_bad_chrs(bd_m.string)
       THEN bd_pc' = "exited" /\ bd_out' = bd_out
       ELSE bd_pc' = "returned" /\ bd_out' = build_id(bd_m)
    /\ UNCHANGED <<bd_top, bd_m>>
    /\ FrameExcept("bd")

BdNext == GetOutputMetadata \/ MarkFinal \/ BuildId

SpecBuild == BdInit /\ [][BdNext]_vars

-----------------------------------------------------------------------------
(* SpecDerive: get_output_metadata called at most MaxDerived times on one   *)
(* parent, and the flag final and the parent_recipe record of the derived   *)
(* Metadata set afterwards.  The extra section of a document is a dict      *)
(* object: dv_heap has the dicts, a Metadata has the reference of its own.  *)

\* an extra dict: the value of its key final and the name of its key
\* parent_recipe, "unset" for a key it does not have
ExtraDict(final, parent_recipe) == [final |-> final, parent_recipe |-> parent_recipe]

\* a document without the key extra
NoExtra == ExtraDict("none", "none")

\* self.meta.get('extra'): the dict a reference stands for
Deref(heap, ref) == IF ref = 0 THEN NoExtra ELSE heap[ref]

\* the outputs handed to get_output_metadata
DerivedOutputs ==
    { [name |-> name, target |-> target] :
          name \in {"pkg", "sub", "lib"}, target \in {"", "win-64"} }

\* get_output_metadata(self, output), for the objects it touches: the heap, self
\* and the derived Metadata after the call
DeriveMetadata(heap, self, output) ==
    LET \* lines 1598-1599: self.config.target_subdir = output['target']
        parent == IF output.target # ""
                  THEN [self EXCEPT !.target_subdir = output.target]
                  ELSE self
        \* line 1642: extra = self.meta.get('extra', {}), then output_metadata.final
        \* = False writes the key final of that dict (lines 1645-1646, 714-716)
        heap1 == IF self.extra = 0 THEN Append(heap, ExtraDict("unset", "unset")) ELSE heap
        ref1 == IF self.extra = 0 THEN Len(heap1) ELSE self.extra
        heap2 == [heap1 EXCEPT ![ref1].final = "False"]
        \* lines 1647-1651: once more self.meta.get('extra', {}), with the record
        \* parent_recipe
        named == self.name # output.name
        heap3 == IF ~named THEN heap2
                 ELSE IF self.extra = 0
                 THEN Append(heap2, ExtraDict("unset", self.name))
                 ELSE [heap2 EXCEPT ![ref1].parent_recipe = self.name]
        ref3 == IF named /\ self.extra = 0 THEN Len(heap3) ELSE ref1
    IN  [heap |-> heap3,
         self |-> parent,
         \* output_metadata = self.copy(): a config of its own, copied after line 1599
         output_metadata |-> [name |-> output.name,
                              target_subdir |-> parent.target_subdir,
                              extra |-> ref3]]

DvInit ==
    /\ IdleExcept("dv")
    /\ \E has_extra \in BOOLEAN, final \in {"unset", "False", "True"} :
           /\ has_extra \/ final = "unset"
           /\ dv_heap = IF has_extra THEN <<ExtraDict(final, "unset")>> ELSE <<>>
           /\ dv_parent = [name |-> "pkg", target_subdir |-> "linux-64",
                           extra |-> IF has_extra THEN 1 ELSE 0]
    /\ dv_outs = <<>>
    /\ dv_start = [m |-> dv_parent, extra |-> Deref(dv_heap, dv_parent.extra)]

\* om = self.get_output_metadata(output)
DeriveOutput ==
    /\ Len(dv_outs) < MaxDerived
    /\ \E output \in DerivedOutputs :
           LET r == DeriveMetadata(dv_heap, dv_parent, output)
           IN  /\ dv_heap' = r.heap
               /\ dv_parent' = r.self
               /\ dv_outs' = Append(dv_outs, r.output_metadata)
    /\ UNCHANGED dv_start
    /\ FrameExcept("dv")

\* om.final = boolean on a derived Metadata (lines 712-716)
SetFinal(i, boolean) ==
    /\ i \in 1..Len(dv_outs)
    /\ dv_heap' = [dv_heap EXCEPT ![dv_outs[i].extra].final = boolean]
    /\ UNCHANGED <<dv_parent, dv_outs, dv_start>>
    /\ FrameExcept("dv")

\* om.meta['extra']['parent_recipe'] = {...} on a derived Metadata
SetParentRecipe(i, name) ==
    /\ i \in 1..Len(dv_outs)
    /\ dv_heap' = [dv_heap EXCEPT ![dv_outs[i].extra].parent_recipe = name]
    /\ UNCHANGED <<dv_parent, dv_outs, dv_start>>
    /\ FrameExcept("dv")

DvNext ==
    \/ DeriveOutput
    \/ \E i \in 1..MaxDerived, boolean \in {"False", "True"} : SetFinal(i, boolean)
    \/ \E i \in 1..MaxDerived : SetParentRecipe(i, "other")

SpecDerive == DvInit /\ [][DvNext]_vars

-----------------------------------------------------------------------------
(* Claims about get_output_metadata.                                        *)

\* what the parent reads: its name, its config, its extra section
ParentView == [m |-> dv_parent, extra |-> Deref(dv_heap, dv_parent.extra)]

\* what the i-th derived Metadata reads
DerivedView(i) == [m |-> dv_outs[i], extra |-> Deref(dv_heap, dv_outs[i].extra)]

\* a mutation of the i-th derived Metadata
Mutation(i) ==
    \/ \E boolean \in {"False", "True"} : SetFinal(i, boolean)
    \/ SetParentRecipe(i, "other")

\* C15: get_output_metadata returns a Metadata that shares no mutable state with
\* its parent: the call leaves the document of the parent, its extra section and
\* flag final included, and its config as they were, and a later mutation of the
\* derived Metadata (its flag final, its parent_recipe record) changes neither
\* the parent nor another Metadata derived from the same parent.
C15_CopyOnDerive ==
    [][/\ DeriveOutput => ParentView' = ParentView
       /\ \A i \in 1..Len(dv_outs) :
              Mutation(i) =>
                  /\ ParentView' = ParentView
                  /\ \A j \in 1..Len(dv_outs) : j # i => DerivedView(j)' = DerivedView(j)
      ]_vars

\* what the code does keep apart: the name and the config of the parent, but for
\* the target of the output, which the call writes into the config of the parent
C15_NameAndConfigKept ==
    /\ dv_parent.name = dv_start.m.name
    /\ dv_parent.extra = dv_start.m.extra
    /\ \/ dv_parent.target_subdir = dv_start.m.target_subdir
       \/ \E i \in 1..Len(dv_outs) : dv_outs[i].target_subdir = dv_parent.target_subdir

\* the parent was final; after the call for sub it is not and has the record
\* parent_recipe
C15_ParentChanged ==
    /\ dv_start.extra = ExtraDict("True", "unset")
    /\ Len(dv_outs) = 1 /\ dv_outs[1].name = "sub"
    /\ ParentView.extra = ExtraDict("False", "pkg")
    /\ dv_parent = dv_start.m

\* two Metadata derived from one parent, and the parent, with one extra dict
C15_SiblingsShare ==
    /\ Len(dv_outs) = 2
    /\ dv_outs[1].extra = dv_outs[2].extra
    /\ dv_outs[1].extra = dv_parent.extra
    /\ ParentView.extra.final = "True"

-----------------------------------------------------------------------------
(* Claims about build_id.                                                   *)

\* the Metadata has an explicit literal build string without the placeholder
LiteralBuildString(m) == m.string # NoString /\ ~m.uses_hash

\* C13: when a recipe, or a declared output of it, sets an explicit literal build
\* string without the hash placeholder, build_id of its Metadata returns that
\* string unchanged, with no digest appended or inserted, final or not, with
\* file names hashed or not.
C13_LiteralUnchanged ==
    (bd_pc = "returned" /\ LiteralBuildString(bd_m)) =>
        bd_out = JoinPieces(bd_m.string)

\* what the code does: the literal is returned unchanged when the head of the
\* file at meta_path has it
C13_LiteralOfTextUnchanged ==
    (bd_pc = "returned" /\ extract_package_and_build_text(bd_m) = "literal") =>
        bd_out = JoinPieces(bd_m.string)

\* a final output with the literal custom_1 and hashed file names
C13_OutputHashed ==
    /\ bd_pc = "returned"
    /\ bd_m.name = "sub" /\ bd_m.final /\ bd_m.filename_hashing
    /\ bd_m.string = <<"custom", "_", "1">> /\ ~bd_m.uses_hash
    /\ bd_out = "customh2b_1"

\* the string is composed, or has the hash placeholder
ComposedOrPlaceholder(m) == m.string = NoString \/ m.uses_hash

\* C24: when no explicit build string is set, or the build string has the hash
\* placeholder, build_id of a final Metadata with file names hashed has the digest
\* of hash_dependencies exactly once, at the place of the placeholder or, without
\* one, right before the trailing '_<build number>'; build_id of a Metadata that
\* is not final has no digest and is the string of build_string_from_metadata.
C24_DigestOnce ==
    (bd_pc = "returned" /\ ComposedOrPlaceholder(bd_m)) =>
        LET out == build_string_from_metadata(bd_m)
            n == Len(out)
        IN  IF bd_m.final /\ bd_m.filename_hashing
            THEN IF bd_m.uses_hash
                 THEN /\ Cardinality({i \in 1..n : IsDigest(out[i])}) = 1
                      /\ bd_out = JoinPieces([i \in 1..n |->
                                      IF IsDigest(out[i]) THEN bd_m.hash ELSE out[i]])
                 ELSE bd_out = JoinPieces(SubSeq(out, 1, n - 2)
                                              \o <<bd_m.hash, "_", out[n]>>)
            ELSE IF ~bd_m.final
            THEN /\ bd_out = JoinPieces(out)
                 /\ bd_m.string = NoString => \A i \in 1..n : ~IsDigest(out[i])
            ELSE TRUE

\* what the code does: the digest goes in front of the string when all that
\* precedes the last underscore is an integer
C24_DigestPlaced ==
    (bd_pc = "returned" /\ ComposedOrPlaceholder(bd_m)) =>
        LET out == build_string_from_metadata(bd_m)
            n == Len(out)
        IN  IF bd_m.final /\ bd_m.filename_hashing
            THEN IF bd_m.uses_hash
                 THEN bd_out = JoinPieces([i \in 1..n |->
                                     IF IsDigest(out[i]) THEN bd_m.hash ELSE out[i]])
                 ELSE IF n = 3 /\ IsInt(out[1])
                 THEN bd_out = JoinPieces(<<bd_m.hash, "_">> \o out)
                 ELSE bd_out = JoinPieces(SubSeq(out, 1, n - 2)
                                              \o <<bd_m.hash, "_", out[n]>>)
            ELSE bd_out = JoinPieces(out)

\* a final Metadata with the feature 1 and no pinned runtime
C24_DigestInFront ==
    /\ bd_pc = "returned"
    /\ bd_m.final /\ bd_m.filename_hashing /\ bd_m.string = NoString
    /\ bd_m.features = <<"1">>
    /\ bd_out = "h1a_1_0"

\* the usual case: py27h1a_0
C24_DigestBeforeNumber ==
    /\ bd_pc = "returned"
    /\ bd_m.final /\ bd_m.filename_hashing /\ bd_m.string = NoString
    /\ bd_out = "py27h1a_0"

-----------------------------------------------------------------------------
(* Claims about the finalization rounds.                                    *)

\* the visits of a round, in the order they were made
VisitsOf(pass_no) == SelectSeq(gs_visits, LAMBDA v : v.pass_no = pass_no)

\* what the round before the one of visit v recorded for the output of v: the
\* Metadata of the render order before round 0
PriorRound(v) ==
    IF v.pass_no = 0 THEN {v.before}
    ELSE {w.m : w \in {u \in Range(gs_visits) : u.pass_no = v.pass_no - 1 /\ u.key = v.key}}

\* C11: in tolerant mode, when the resolution of an output signals
\* DependencyNeedsBuildingError in round k, the entry recorded for it in round k
\* is the Metadata round k - 1 produced for it (before round 0, the Metadata of
\* the render order), and the round goes on with the remaining outputs.
C11_PriorRoundKept ==
    \A i \in 1..Len(gs_visits) :
        gs_visits[i].outcome = "tolerated" =>
            /\ PriorRound(gs_visits[i]) = {gs_visits[i].m}
            /\ Len(VisitsOf(gs_visits[i].pass_no)) = Len(gs_conda)

\* what the code does: the entry recorded is the Metadata of the render order,
\* in every round, and the round visits every output
C11_RenderOrderKept ==
    \A i \in 1..Len(gs_visits) :
        gs_visits[i].outcome = "tolerated" =>
            /\ gs_visits[i].m = gs_visits[i].before
            /\ ~gs_visits[i].m.final
            /\ Len(VisitsOf(gs_visits[i].pass_no)) = Len(gs_conda)

\* C12: when DependencyNeedsBuildingError is raised in a finalization round and
\* the caller has not opted into tolerance, get_output_metadata_set aborts with
\* that error: the visit that raised is the last one, no collection is returned,
\* and neither the hash-pin check nor the marking as final has run.
C12_Aborts ==
    \A i \in 1..Len(gs_visits) :
        (gs_visits[i].dnbe /\ ~gs_permit.unsat) =>
            /\ i = Len(gs_visits)
            /\ gs_visits[i].outcome = "raised"
            /\ gs_pc = "raised"
            /\ gs_err = [type |-> "DependencyNeedsBuildingError", pairs |-> <<>>]
            /\ gs_tuples = <<>>
            /\ \A k \in 1..Len(gs_conda) : ~gs_conda[k].m.final
            /\ ~ENABLED Next

\* round 0 went through and the error came in round 1, without tolerance
C12_Witness ==
    /\ ~gs_permit.unsat
    /\ gs_pc = "raised"
    /\ gs_visits # <<>>
    /\ gs_visits[Len(gs_visits)].dnbe
    /\ gs_visits[Len(gs_visits)].pass_no = 1
    /\ Len(VisitsOf(0)) = Len(gs_conda)
    /\ Len(gs_conda) = 2

\* a is finalized in round 0 and tolerated in round 1
C11_ToleratedAfterFinalized ==
    \E i, j \in 1..Len(gs_visits) :
        /\ gs_visits[i].pass_no = 0 /\ gs_visits[i].outcome = "finalized"
        /\ gs_visits[j].pass_no = 1 /\ gs_visits[j].outcome = "tolerated"
        /\ gs_visits[i].key = gs_visits[j].key


\* the rounds of a finalize_outputs_pass that returned: rounds 0, 1, 2 and the
\* final loop, in that order; every round visits the entries of render_order
\* once, in their order, with the base recipe parsed under the variant of the
\* entry; the final loop visits every entry of the outputs of round 2 once
RoundsComplete ==
    LET render_order == CondaPackages(gs_order)
    IN  /\ gs_visits = VisitsOf(0) \o VisitsOf(1) \o VisitsOf(2) \o VisitsOf(3)
        /\ \A p \in 0..2 :
               /\ Len(VisitsOf(p)) = Len(render_order)
               /\ \A i \in 1..Len(render_order) :
                      /\ VisitsOf(p)[i].key = render_order[i].key
                      /\ VisitsOf(p)[i].before = render_order[i].m
                      /\ VisitsOf(p)[i].variant = render_order[i].m.variant
        /\ Len(VisitsOf(3)) = Len(gs_conda)
        /\ \A i \in 1..Len(gs_conda) :
               /\ VisitsOf(3)[i].key = gs_conda[i].key
               /\ VisitsOf(3)[i].m = gs_conda[i].m
        /\ {v.key : v \in Range(VisitsOf(3))}
               = {<<w.m.name, w.m.variant>> : w \in Range(VisitsOf(2))}
        /\ {v.before : v \in Range(VisitsOf(3))} = {w.m : w \in Range(VisitsOf(2))}

\* C19: finalize_outputs_pass started at pass 0 and not left by an error runs
\* exactly the rounds 0, 1 and 2, each visiting every entry of its render order
\* once, in that order, with the base recipe parsed again under the variant of
\* that entry; after round 2 it calls finalize once more for every surviving
\* output and returns, and the hash-pin check runs only after that return.
C19_ThreeRounds ==
    /\ [](gs_pc = "ordered" => gs_visits = <<>>)
    /\ [](gs_pc \in {"finalized", "pinned"} => RoundsComplete)
    /\ [][CheckPins => gs_pc = "finalized" /\ RoundsComplete]_vars

\* two outputs under two variants went through the four loops and the pin check
C19_Witness ==
    /\ gs_pc = "pinned"
    /\ Len(CondaPackages(gs_order)) >= 2
    /\ Len(gs_visits) = 4 * Len(CondaPackages(gs_order))
    /\ \E i, j \in 1..Len(VisitsOf(0)) : VisitsOf(0)[i].variant # VisitsOf(0)[j].variant

\* C14: when get_output_metadata_set returns for a Metadata that is not final,
\* every pair of the collection has its flag final set: the outputs whose
\* resolution was tolerated, the outputs returned without finalization and the
\* outputs that are no conda packages included.
C14_AllFinal ==
    gs_pc = "returned" => \A i \in 1..Len(gs_tuples) : gs_tuples[i].m.final

\* what the code does: the conda packages are final, tolerated or returned without
\* finalization included
C14_CondaFinal ==
    gs_pc = "returned" =>
        \A i \in 1..Len(gs_tuples) :
            (gs_tuples[i].d.type = NoType \/ gs_tuples[i].d.type = "conda") =>
                gs_tuples[i].m.final

\* a wheel returned after the finalization of a conda package, not final
C14_WheelNotFinal ==
    /\ gs_pc = "returned"
    /\ ~gs_permit.jinja
    /\ Len(gs_tuples) = 2
    /\ gs_tuples[1].m.final
    /\ gs_tuples[2].d.type = "wheel" /\ ~gs_tuples[2].m.final

\* a wheel returned without finalization, final with the conda package of its
\* variant
C14_WheelSharesFlag ==
    /\ gs_pc = "returned"
    /\ gs_permit.jinja
    /\ Len(gs_tuples) = 2
    /\ gs_tuples[2].d.type = "wheel" /\ gs_tuples[2].m.final


-----------------------------------------------------------------------------
(* SpecRender: MetaData.__init__ and then parse_until_resolved on every     *)
(* recipe of Templates, for every jinja context that changes over at most   *)
(* MaxRenders renders.                                                      *)

Pkg(version) == <<"package", D(<< <<"name", S("pkg")>>, <<"version", version>> >>)>>

GitSource(tags) == D(<< <<"git_url", S("https://host/pkg.git")>> >> \o tags)

\* the recipes: an empty file; package alone; placeholders in version and run
\* requirements; requirements a string, empty, a placeholder, a list; source
\* empty, a string, a list of dicts, a dict with two git revisions; source and
\* build both of the wrong shape; build with a bad noarch, a bad pin_depends, a
\* 'None' string next to a section FIELDS does not know; a rendered recipe, which
\* has extra/final
Templates ==
    { N,
      D(<<Pkg(S("1.0"))>>),
      D(<<Pkg(T("x"))>>),
      D(<<Pkg(T("x")),
          <<"requirements", D(<< <<"run", L(<<S("python"), T("y")>>)>> >>)>> >>),
      D(<<Pkg(S("1.0")), <<"requirements", S("numpy")>> >>),
      D(<<Pkg(S("1.0")), <<"requirements", S("")>> >>),
      D(<<Pkg(S("1.0")), <<"requirements", T("x")>> >>),
      D(<<Pkg(S("1.0")), <<"requirements", L(<<S("numpy")>>)>> >>),
      D(<<Pkg(S("1.0")), <<"source", S("")>> >>),
      D(<<Pkg(T("y")), <<"source", S("pkg.tar.gz")>> >>),
      D(<<Pkg(S("1.0")),
          <<"source", L(<<D(<< <<"url", S("pkg.tar.gz")>> >>),
                          GitSource(<< <<"git_tag", S("v1")>> >>)>>)>> >>),
      D(<<Pkg(T("x")),
          <<"source", GitSource(<< <<"git_tag", S("v1")>>, <<"git_branch", T("y")>> >>)>> >>),
      D(<<Pkg(S("1.0")), <<"source", S("pkg.tar.gz")>>, <<"build", L(<<S("1")>>)>> >>),
      D(<<Pkg(S("1.0")), <<"build", D(<< <<"noarch", S("None")>> >>)>> >>),
      D(<<Pkg(S("1.0")), <<"build", D(<< <<"pin_depends", S("loose")>> >>)>> >>),
      D(<<Pkg(S("1.0")),
          <<"build", D(<< <<"number", S("0")>>, <<"string", S("None")>> >>)>>,
          <<"outputs", S("notes")>> >>),
      D(<<Pkg(T("x")), <<"extra", D(<< <<"final", S("true")>> >>)>> >>) }

UndefNames == {"x", "y"}

RecipePaths == {"a/meta.yaml", "b/meta.yaml"}

\* the config the hash is computed under
RnConfig == [ignore_version |-> <<>>, include_recipe |-> TRUE, recipe_path |-> FALSE]

\* MetaData.__init__ up to its call of parse_again
\* an exit of parse_again that leaves os.environ as it is
keep_CONDA_BUILD_STATE(environ) == environ

\* finally: del os.environ["CONDA_BUILD_STATE"] (lines 805-807); environ is
\* whether os.environ has the key
del_CONDA_BUILD_STATE(environ) == FALSE

RnInit ==
    /\ IdleExcept("rn")
    /\ rn_tpl \in Templates
    /\ rn_path \in RecipePaths
    /\ \E n \in 1..MaxRenders : \E sc \in [1..n -> SUBSET UndefNames] : rn_script = sc
    /\ rn_meta = D(<<>>)
    /\ rn_final = FALSE
    /\ rn_saved = FALSE
    /\ rn_undef = {}
    /\ rn_prev = {}
    /\ rn_flag = FALSE
    /\ rn_text = N
    /\ rn_parsed = FALSE
    /\ rn_pc = "init"
    /\ rn_step = "call"
    /\ rn_renders = <<>>
    /\ rn_err = NoFailure
    /\ rn_digests = <<>>

\* parse_again: the assertion and the setting of CONDA_BUILD_STATE (lines 757-766)
EnterParseAgain ==
    /\ rn_step = "call"
    /\ Len(rn_renders) < MaxRenders + 2
    /\ IF rn_final
       THEN /\ rn_pc' = "raised"
            /\ rn_step' = "idle"
            /\ rn_err' = Failure("AssertionError", "modifying metadata after finalization",
                                 "", rn_path, {})
            /\ rn_flag' = rn_flag
       ELSE /\ rn_flag' = TRUE
            /\ rn_step' = "render"
            /\ UNCHANGED <<rn_pc, rn_err>>
    /\ UNCHANGED <<rn_tpl, rn_path, rn_script, rn_meta, rn_final, rn_saved, rn_undef,
                   rn_prev, rn_text, rn_parsed, rn_renders, rn_digests>>
    /\ FrameExcept("rn")

\* parse_again: self._get_contents(permit_undefined_jinja, ...)
GetContents ==
    /\ rn_step = "render"
    /\ LET r == get_contents(rn_tpl, Lacks(rn_script, rn_renders), rn_pc # "strict",
                             rn_path, rn_undef)
       IN  /\ rn_renders' = Append(rn_renders,
                                   [mode |-> IF rn_pc = "strict" THEN "strict" ELSE "lenient",
                                    names |-> r.undefined_jinja_vars,
                                    by |-> rn_pc])
           /\ rn_undef' = r.undefined_jinja_vars
           /\ IF r.err.type # "none"
              THEN /\ rn_flag' = del_CONDA_BUILD_STATE(rn_flag)
                   /\ rn_pc' = "exited"
                   /\ rn_step' = "idle"
                   /\ rn_err' = r.err
                   /\ UNCHANGED <<rn_text, rn_parsed>>
              ELSE /\ rn_text' = r.rendered
                   /\ rn_parsed' = FALSE
                   /\ rn_step' = "parse"
                   /\ UNCHANGED <<rn_flag, rn_pc, rn_err>>
    /\ UNCHANGED <<rn_tpl, rn_path, rn_script, rn_meta, rn_final, rn_saved, rn_prev,
                   rn_digests>>
    /\ FrameExcept("rn")

\* parse_again: self.meta = parse(..., path=self.meta_path)
Parse ==
    /\ rn_step = "parse"
    /\ \E r \in parse(rn_text, rn_path) :
           IF r.err.type # "none"
           THEN /\ rn_flag' = del_CONDA_BUILD_STATE(rn_flag)
                /\ rn_pc' = IF r.err.type = "SystemExit" THEN "exited" ELSE "raised"
                /\ rn_step' = "idle"
                /\ rn_err' = r.err
                /\ UNCHANGED <<rn_meta, rn_final>>
           ELSE /\ rn_meta' = r.meta
                /\ rn_final' = final_of(r.meta)
                /\ rn_step' = "finish"
                /\ UNCHANGED <<rn_flag, rn_pc, rn_err>>
    /\ rn_parsed' = TRUE
    /\ UNCHANGED <<rn_tpl, rn_path, rn_script, rn_saved, rn_undef, rn_prev, rn_text,
                   rn_renders, rn_digests>>
    /\ FrameExcept("rn")

\* parse_again: the finally clause and append_requirements, then the caller's
\* self.final = final
LeaveParseAgain ==
    /\ rn_step = "finish"
    /\ rn_flag' = del_CONDA_BUILD_STATE(rn_flag)
    /\ rn_meta' = append_requirements(rn_meta)
    /\ rn_step' = "idle"
    /\ rn_pc' = IF rn_pc = "init" THEN "constructed"
                ELSE IF rn_pc = "strict" THEN "returned" ELSE "while"
    /\ rn_final' = IF rn_pc = "init" THEN rn_final ELSE restore_final(rn_final, rn_saved)
    /\ UNCHANGED <<rn_tpl, rn_path, rn_script, rn_saved, rn_undef, rn_prev, rn_text,
                   rn_parsed, rn_renders, rn_err, rn_digests>>
    /\ FrameExcept("rn")

\* parse_until_resolved up to its first parse_again (lines 832-836)
CallParseUntilResolved ==
    /\ rn_pc = "constructed"
    /\ rn_prev' = {}
    /\ rn_saved' = rn_final
    /\ rn_pc' = "first"
    /\ rn_step' = "call"
    /\ UNCHANGED <<rn_tpl, rn_path, rn_script, rn_meta, rn_final, rn_undef, rn_flag,
                   rn_text, rn_parsed, rn_renders, rn_err, rn_digests>>
    /\ FrameExcept("rn")

\* m.final = boolean on the MetaData just constructed (the setter, lines 712-716)
SetFinalFlag ==
    /\ rn_pc = "constructed"
    /\ rn_final' = ~rn_final
    /\ UNCHANGED <<rn_tpl, rn_path, rn_script, rn_meta, rn_saved, rn_undef, rn_prev,
                   rn_flag, rn_text, rn_parsed, rn_pc, rn_step, rn_renders, rn_err,
                   rn_digests>>
    /\ FrameExcept("rn")

\* the test of the while loop, and what follows the loop (lines 840-851)
LoopTest ==
    /\ rn_pc = "while"
    /\ IF loop_continues(rn_prev, rn_undef)
       THEN /\ rn_prev' = loop_local(rn_prev, rn_undef)
            /\ rn_pc' = "again"
            /\ rn_step' = "call"
            /\ rn_err' = rn_err
       ELSE IF rn_prev # {}
       THEN /\ rn_pc' = "exited"
            /\ rn_err' = Failure("SystemExit", "Undefined Jinja2 variables remain",
                                 "", "", rn_undef)
            /\ UNCHANGED <<rn_prev, rn_step>>
       ELSE /\ rn_pc' = "strict"
            /\ rn_step' = "call"
            /\ UNCHANGED <<rn_prev, rn_err>>
    /\ UNCHANGED <<rn_tpl, rn_path, rn_script, rn_meta, rn_final, rn_saved, rn_undef,
                   rn_flag, rn_text, rn_parsed, rn_renders, rn_digests>>
    /\ FrameExcept("rn")

\* hash_dependencies of the MetaData, between the calls
HashRendered ==
    /\ rn_pc \in {"constructed", "returned"}
    /\ \A i \in 1..Len(rn_digests) : rn_digests[i].at # Len(rn_renders)
    /\ rn_digests' = Append(rn_digests,
                            [at |-> Len(rn_renders),
                             digest |-> hash_dependencies(rn_meta, RnConfig, <<>>)])
    /\ rn_meta' = MetaAfterHash(rn_meta)
    /\ UNCHANGED <<rn_tpl, rn_path, rn_script, rn_final, rn_saved, rn_undef, rn_prev,
                   rn_flag, rn_text, rn_parsed, rn_pc, rn_step, rn_renders, rn_err>>
    /\ FrameExcept("rn")

RnNext ==
    \/ EnterParseAgain \/ GetContents \/ Parse \/ LeaveParseAgain
    \/ CallParseUntilResolved \/ LoopTest \/ HashRendered \/ SetFinalFlag

SpecRender == RnInit /\ [][RnNext]_vars


-----------------------------------------------------------------------------
(* Claims about the final flag.                                             *)

\* parse_again is entered on a Metadata that is final
ParseAgainOfFinal == rn_step = "call" /\ rn_final

\* C29: a Metadata whose flag final is true is never parsed again: parse_again,
\* and so parse_until_resolved, fails on it with the assertion 'modifying metadata
\* after finalization' before the document changes; for a Metadata that is not
\* final the flag has, at the end of parse_until_resolved, the value it had at
\* entry, although every re-parse replaces the document.
C29_FinalNotReparsed ==
    /\ [][ParseAgainOfFinal =>
              /\ rn_pc' = "raised"
              /\ rn_err'.type = "AssertionError"
              /\ rn_err'.msg = "modifying metadata after finalization"
              /\ rn_meta' = rn_meta /\ rn_final' = rn_final
              /\ rn_renders' = rn_renders /\ rn_text' = rn_text]_vars
    /\ [](rn_pc \in {"while", "returned"} => (~rn_saved /\ rn_final = rn_saved))
    /\ [][Parse /\ rn_err' = rn_err => rn_meta' \in {r.meta : r \in parse(rn_text, rn_path)}]_vars

\* parse_until_resolved has returned on a Metadata that was not final at entry
\* and whose recipe has extra/final: the document is the re-parsed one, which has
\* the flag, and the Metadata is not final
C29_Witness ==
    /\ rn_pc = "returned"
    /\ ~rn_saved /\ ~rn_final
    /\ final_of(rn_meta)
    /\ Len(rn_renders) >= 4

\* parse_until_resolved on a final Metadata: the assertion, at the first
\* parse_again, the document being the one of the construction
C29_WitnessAsserted ==
    /\ rn_pc = "raised"
    /\ rn_err.type = "AssertionError"
    /\ rn_final /\ rn_saved
    /\ Len(rn_renders) = 1

-----------------------------------------------------------------------------
(* Claims about parse.                                                      *)

\* the section has a value that is not empty ('', [] and {} are)
NonEmptySection(res, field) == HasKey(res, field) /\ PyTrue(Get(res, field, D(<<>>)))

IsMapping(x) == x.t = "d"

IsSequence(x) == x.t = "l"

\* a known section that is not empty and of the wrong shape
WrongShape(res, field) ==
    /\ NonEmptySection(res, field)
    /\ LET x == Get(res, field, D(<<>>))
       IN  IF field = "source" THEN ~IsMapping(x) /\ ~IsSequence(x) ELSE ~IsMapping(x)

\* the same, with every source that is neither a mapping nor a sequence
WrongShapeAsStated(res, field) ==
    /\ HasKey(res, field)
    /\ LET x == Get(res, field, D(<<>>))
       IN  IF field = "source" THEN ~IsMapping(x) /\ ~IsSequence(x)
           ELSE PyTrue(x) /\ ~IsMapping(x)

\* parse has ended on the document rn_text
ParseEnded == rn_parsed /\ rn_text.t = "d"

\* parse has raised the error of the shape test on one of the fields, with the
\* path of the file; self.meta was not assigned and no hash was computed since
\* the render
SchemaRejected(fields) ==
    /\ rn_pc = "raised"
    /\ rn_step = "idle"
    /\ rn_err.type = "RuntimeError"
    /\ rn_err.msg = "field should be a dict"
    /\ rn_err.field \in fields
    /\ rn_err.path = rn_path
    /\ \A i \in 1..Len(rn_digests) : rn_digests[i].at < Len(rn_renders)

\* C9, as stated: parse rejects, with an error naming the field and the file,
\* every document in which a known section other than source is a non-empty
\* value that is not a mapping, or in which source is neither a mapping nor a
\* sequence; no hash is computed before and no document is returned.
C9_AsStated ==
    (ParseEnded /\ \E field \in FIELDS : WrongShapeAsStated(rn_text, field)) =>
        SchemaRejected({ field \in FIELDS : WrongShapeAsStated(rn_text, field) })

\* C9, amended: parse rejects, with an error naming the field and the file,
\* every document in which a known section is a non-empty value that is not a
\* mapping or, for source, neither a mapping nor a sequence (an empty source,
\* like every empty section, becomes an empty mapping); no hash is computed
\* before and no document is returned.
C9_SchemaRejection ==
    (ParseEnded /\ \E field \in FIELDS : WrongShape(rn_text, field)) =>
        SchemaRejected({ field \in FIELDS : WrongShape(rn_text, field) })

\* requirements rendered to a plain string, rejected
C9_Witness ==
    /\ ParseEnded
    /\ HasKey(rn_text, "requirements")
    /\ Get(rn_text, "requirements", D(<<>>)).t = "s"
    /\ WrongShape(rn_text, "requirements")
    /\ SchemaRejected({"requirements"})

\* an empty source is accepted
C9_WitnessEmptySource ==
    /\ ParseEnded
    /\ HasKey(rn_text, "source")
    /\ Get(rn_text, "source", D(<<>>)).t = "s"
    /\ rn_step = "finish"
    /\ ~HasKey(rn_meta, "source")

-----------------------------------------------------------------------------
(* Claims about parse_until_resolved.                                       *)

\* the renders parse_until_resolved has made, and the lenient ones of them
PurRenders == SelectSeq(rn_renders, LAMBDA r : r.by # "init")

LenientRenders == SelectSeq(PurRenders, LAMBDA r : r.mode = "lenient")

StrictRenders == SelectSeq(PurRenders, LAMBDA r : r.mode = "strict")

UndefinedRemain ==
    /\ rn_pc = "exited"
    /\ rn_err.type = "SystemExit"
    /\ rn_err.msg = "Undefined Jinja2 variables remain"

\* the loop of lenient renders is over
LoopEnded ==
    \/ rn_pc \in {"strict", "returned"}
    \/ UndefinedRemain
    \/ PurRenders # <<>> /\ PurRenders[Len(PurRenders)].by = "strict"

LastNames == LenientRenders[Len(LenientRenders)].names

\* the names recorded by the render before the k-th lenient one; before the
\* first render of the call the names are none, whatever __init__ recorded
NamesBefore(k) == IF k = 1 THEN {} ELSE LenientRenders[k - 1].names

\* what follows the loop: the fatal error with the names when names remain, else
\* one strict render, the last render of the call
AfterLoop ==
    /\ LastNames # {} =>
           /\ UndefinedRemain
           /\ rn_err.names = LastNames
           /\ StrictRenders = <<>>
    /\ LastNames = {} =>
           /\ ~UndefinedRemain
           /\ Len(StrictRenders) <= 1
           /\ StrictRenders # <<>> => PurRenders[Len(PurRenders)].mode = "strict"
           /\ rn_pc = "returned" => Len(StrictRenders) = 1

\* C10, as stated: the lenient renders are repeated until the names recorded by
\* one render equal those recorded by the previous render; then names that
\* remain are a fatal error, and no names are followed by exactly one strict
\* render, the last step.
C10_AsStated ==
    LoopEnded =>
        /\ Len(LenientRenders) >= 2
        /\ LastNames = LenientRenders[Len(LenientRenders) - 1].names
        /\ \A k \in 2..(Len(LenientRenders) - 1) :
               LenientRenders[k].names # LenientRenders[k - 1].names
        /\ AfterLoop

\* C10, amended: the lenient renders are repeated until the names recorded by
\* one render equal those recorded by the render before it, where before the
\* first render the names count as none (a first render that records no name
\* ends the loop); then names that remain are a fatal error naming them, and no
\* names are followed by exactly one strict render, the last step.
C10_Fixpoint ==
    LoopEnded =>
        /\ Len(LenientRenders) >= 1
        /\ LastNames = NamesBefore(Len(LenientRenders))
        /\ \A k \in 1..(Len(LenientRenders) - 1) :
               LenientRenders[k].names # NamesBefore(k)
        /\ AfterLoop

\* names, then none, then none again: three lenient renders, one strict, returned
C10_Witness ==
    /\ rn_pc = "returned"
    /\ Len(LenientRenders) = 3
    /\ LenientRenders[1].names # {}
    /\ LenientRenders[2].names = {}
    /\ LenientRenders[3].names = {}
    /\ Len(StrictRenders) = 1

\* names that stay: two lenient renders, then the fatal error
C10_WitnessRemain ==
    /\ UndefinedRemain
    /\ Len(LenientRenders) = 2
    /\ LastNames # {}
    /\ rn_err.names = LastNames

-----------------------------------------------------------------------------
(* Claims about CONDA_BUILD_STATE.                                          *)

\* parse_again is between the setting of the variable and its finally clause
InParseAgain == rn_step \in {"render", "parse", "finish"}

\* C16: CONDA_BUILD_STATE is set to RENDER before the renderer is invoked in
\* parse_again and is absent again when parse_again has ended, on every exit
\* path: the normal return, a schema or field error, a template error, a fatal
\* exit; it is never left set.
C16_RenderState ==
    /\ InParseAgain => rn_flag
    /\ ~InParseAgain => ~rn_flag
    /\ rn_pc \in {"constructed", "while", "returned", "raised", "exited"} => ~rn_flag

\* the strict render found an undefined name and parse_again ended in the fatal
\* exit of the renderer, after renders that returned normally
C16_Witness ==
    /\ rn_pc = "exited"
    /\ rn_err.type = "SystemExit"
    /\ Len(rn_renders) >= 2
    /\ rn_renders[Len(rn_renders)].mode = "strict"
    /\ ~rn_flag

\* parse_again ended in an error of parse
C16_WitnessParseError ==
    /\ rn_pc = "raised"
    /\ rn_parsed
    /\ rn_err.type # "none"
    /\ ~rn_flag

-----------------------------------------------------------------------------
(* SpecLoop: parse_until_resolved with a renderer that records, at every    *)
(* render, any set of names (or, monotone, any subset of the set it         *)
(* recorded before).  A render is a step; the program is sequential, so a   *)
(* step that can be taken is taken: SpecLoopFair.                           *)

LoopNames == {"x", "y", "z"}

\* the sets a lenient render can record after it recorded the set undefined
Recorded(renderer, undefined) ==
    IF renderer = "monotone" THEN SUBSET undefined ELSE SUBSET LoopNames

LpInit ==
    /\ IdleExcept("lp")
    /\ lp_renderer \in {"monotone", "any"}
    /\ lp_prev = {}
    \* what the render of __init__ recorded
    /\ lp_undef \in SUBSET LoopNames
    /\ lp_pc = "first"
    /\ lp_iter = 0

\* lines 833-837: undefined_jinja_vars = (), the first parse_again
FirstRender ==
    /\ lp_pc = "first"
    /\ lp_prev' = {}
    /\ \E parsed \in BOOLEAN :
           IF parsed
           THEN lp_pc' = "while" /\ lp_undef' \in Recorded(lp_renderer, lp_undef)
           ELSE lp_pc' = "raised" /\ lp_undef' \in Recorded(lp_renderer, lp_undef)
    /\ UNCHANGED <<lp_renderer, lp_iter>>
    /\ FrameExcept("lp")

\* lines 838-842: the test holds, the body of the loop
LoopBody ==
    /\ lp_pc = "while"
    /\ loop_continues(lp_prev, lp_undef)
    /\ lp_prev' = loop_local(lp_prev, lp_undef)
    /\ lp_iter' = IF lp_iter < MaxLoops THEN lp_iter + 1 ELSE lp_iter
    /\ \E parsed \in BOOLEAN :
           IF parsed
           THEN lp_pc' = "while" /\ lp_undef' \in Recorded(lp_renderer, lp_undef)
           ELSE lp_pc' = "raised" /\ lp_undef' \in Recorded(lp_renderer, lp_undef)
    /\ UNCHANGED lp_renderer
    /\ FrameExcept("lp")

\* lines 843-845: the test fails; the exit when names remain
LoopExit ==
    /\ lp_pc = "while"
    /\ ~loop_continues(lp_prev, lp_undef)
    /\ lp_pc' = IF lp_prev # {} THEN "exited" ELSE "strict"
    /\ UNCHANGED <<lp_renderer, lp_prev, lp_undef, lp_iter>>
    /\ FrameExcept("lp")

\* lines 848-851: the strict parse_again, which exits on an undefined name
StrictRender ==
    /\ lp_pc = "strict"
    /\ \E names \in Recorded(lp_renderer, lp_undef), parsed \in BOOLEAN :
           /\ lp_undef' = names
           /\ lp_pc' = IF names # {} THEN "exited"
                       ELSE IF parsed THEN "returned" ELSE "raised"
    /\ UNCHANGED <<lp_renderer, lp_prev, lp_iter>>
    /\ FrameExcept("lp")

LpNext == FirstRender \/ LoopBody \/ LoopExit \/ StrictRender

SpecLoop == LpInit /\ [][LpNext]_vars

SpecLoopFair == SpecLoop /\ WF_vars(LpNext)

-----------------------------------------------------------------------------
(* Claims about the termination of parse_until_resolved.                    *)

\* parse_until_resolved has returned, exited or raised
LoopTerminated == lp_pc \in {"returned", "exited", "raised"}

\* C17, as stated: parse_until_resolved terminates for every behaviour of the
\* renderer; when the set of undefined names keeps changing from one render to
\* the next, the loop stops at an iteration cap with a fatal diagnostic.
C17_AsStated == <>LoopTerminated

\* C17, amended: parse_until_resolved has no iteration cap; it terminates when
\* the renderer is monotone, a name it once defined staying defined, and then
\* after at most one pass of the loop body more than there are names.
C17_TerminatesWhenMonotone ==
    /\ (lp_renderer = "monotone") ~> LoopTerminated
    /\ [](lp_renderer = "monotone" => lp_iter <= Cardinality(LoopNames) + 1)

\* a monotone renderer that defines one name more at every render: as many
\* passes of the loop body as there are names and one more, and the return
C17_Witness ==
    /\ lp_renderer = "monotone"
    /\ lp_iter = Cardinality(LoopNames) + 1
    /\ lp_pc = "returned"

\* the loop body has run MaxLoops times and the sets still differ
C17_WitnessStillLooping ==
    /\ lp_renderer = "any"
    /\ lp_iter = MaxLoops
    /\ lp_pc = "while"
    /\ loop_continues(lp_prev, lp_undef)


-----------------------------------------------------------------------------
(* SpecStages: one parse_again on a recipe text of at most MaxLines lines, *)
(* stage by stage.  A line is a sequence of characters in which a jinja    *)
(* expression of one name is one element.                                  *)

\* the names of the jinja context: v is a version, s a text that reads as a
\* selector; u is a name the context lacks
JinjaValue(tok) ==
    IF tok = "{{v}}" THEN <<"1">>
    ELSE IF tok = "{{s}}" THEN <<"[">> \o symWin \o <<"]">>
    ELSE <<>>

IsJinja(c) == c \in {"{{v}}", "{{s}}", "{{u}}"}

UndefinedIn(text) ==
    { "u" : i \in { j \in 1..Len(text) : \E k \in 1..Len(text[j]) : text[j][k] = "{{u}}" } }

RECURSIVE RenderLine(_)
RenderLine(line) ==
    IF line = <<>> THEN <<>>
    ELSE (IF IsJinja(Head(line)) THEN JinjaValue(Head(line)) ELSE <<Head(line)>>)
             \o RenderLine(Tail(line))

\* FilteredLoader.get_source: the source of the template, its selectors
\* evaluated
get_source(contents, ns) == select_lines(contents, ns, <<>>)

\* template.render(environment=env) and the assignment of undefined_jinja_vars
\* (lines 1343-1356): a name the context lacks is empty text and recorded when
\* undefined names are permitted, a TemplateError and with it a sys.exit when not
template_render(source, permit_undefined_jinja) ==
    IF ~permit_undefined_jinja /\ UndefinedIn(source) # {}
    THEN [k |-> "exit"]
    ELSE [k |-> "ok",
          rendered |-> [i \in 1..Len(source) |-> RenderLine(source[i])],
          undefined_jinja_vars |-> IF permit_undefined_jinja THEN UndefinedIn(source)
                                   ELSE {}]

\* a parse that hands the rendered text to yamlize as it is
parse_keeps_lines(data, ns) == [k |-> "ok", lines |-> data]

\* parse: data = select_lines(data, ns_cfg(config), ...) (line 283)
parse_select_lines(data, ns) == select_lines(data, ns, <<>>)

StageLines ==
    { <<"a">>,
      <<"b", " ", "{{v}}">>,
      <<"c", " ", "{{u}}">>,
      <<"d", " ", "{{u}}", " ", "[">> \o symWin \o <<"]">>,
      <<"e", " ", "{{s}}">>,
      <<"f", " ", "[">> \o symLinux \o <<"]">>,
      <<"g", " ", "[">> \o kwAnd \o <<"]">> }

StageTexts(n) == UNION { [1..m -> StageLines] : m \in 1..n }

StInit ==
    /\ IdleExcept("st")
    /\ st_raw \in StageTexts(MaxLines)
    /\ st_ns \in Platforms
    /\ st_permit \in BOOLEAN
    /\ st_pc = "load"
    /\ st_loaded = <<>>
    /\ st_rendered = <<>>
    /\ st_undef = {}
    /\ st_selected = <<>>
    /\ st_doc = NoDoc
    /\ st_trace = <<>>

\* _get_contents: env.get_or_select_template(filename), through the loader
LoaderGetSource ==
    /\ st_pc = "load"
    /\ LET r == get_source(st_raw, ns_cfg(st_ns))
       IN  IF r.k = "exit"
           THEN st_pc' = "exit" /\ UNCHANGED <<st_loaded, st_trace>>
           ELSE /\ st_pc' = "render"
                /\ st_loaded' = r.lines
                /\ st_trace' = Append(st_trace, "select")
    /\ UNCHANGED <<st_raw, st_ns, st_permit, st_rendered, st_undef, st_selected, st_doc>>
    /\ FrameExcept("st")

\* _get_contents: template.render (lines 1343-1357)
TemplateRender ==
    /\ st_pc = "render"
    /\ LET r == template_render(st_loaded, st_permit)
       IN  IF r.k = "exit"
           THEN st_pc' = "exit" /\ UNCHANGED <<st_rendered, st_undef, st_trace>>
           ELSE /\ st_pc' = "select"
                /\ st_rendered' = r.rendered
                /\ st_undef' = r.undefined_jinja_vars
                /\ st_trace' = Append(st_trace, "template")
    /\ UNCHANGED <<st_raw, st_ns, st_permit, st_loaded, st_selected, st_doc>>
    /\ FrameExcept("st")

\* parse: select_lines on the rendered text (line 283)
ParseSelectLines ==
    /\ st_pc = "select"
    /\ LET r == parse_select_lines(st_rendered, ns_cfg(st_ns))
       IN  IF r.k = "exit"
           THEN st_pc' = "exit" /\ UNCHANGED <<st_selected, st_trace>>
           ELSE /\ st_pc' = "build"
                /\ st_selected' = r.lines
                /\ st_trace' = Append(st_trace, "select")
    /\ UNCHANGED <<st_raw, st_ns, st_permit, st_loaded, st_rendered, st_undef, st_doc>>
    /\ FrameExcept("st")

\* parse: yamlize and the tests of the document (lines 284-307)
ParseYamlize ==
    /\ st_pc = "build"
    /\ st_doc' = [entries |-> st_selected, sanitized |-> FALSE]
    /\ st_trace' = Append(st_trace, "build")
    /\ st_pc' = "sanitize"
    /\ UNCHANGED <<st_raw, st_ns, st_permit, st_loaded, st_rendered, st_undef, st_selected>>
    /\ FrameExcept("st")

\* parse: return sanitize(res) (line 308)
ParseSanitize ==
    /\ st_pc = "sanitize"
    /\ st_doc' = [st_doc EXCEPT !.sanitized = TRUE]
    /\ st_trace' = Append(st_trace, "normalize")
    /\ st_pc' = "done"
    /\ UNCHANGED <<st_raw, st_ns, st_permit, st_loaded, st_rendered, st_undef, st_selected>>
    /\ FrameExcept("st")

StNext ==
    LoaderGetSource \/ TemplateRender \/ ParseSelectLines \/ ParseYamlize \/ ParseSanitize

SpecStages == StInit /\ [][StNext]_vars

IsPrefix(s, t) == Len(s) <= Len(t) /\ s = SubSeq(t, 1, Len(s))

\* C20, as stated: within one parse_again the stages run in the order selector
\* evaluation, template resolution, document build, normalization.
C20_AsStated == IsPrefix(st_trace, <<"select", "template", "build", "normalize">>)

\* C20, amended: within one parse_again the template is resolved on the whole
\* source its loader hands over, then parse evaluates the selectors of the whole
\* rendered text, then builds the document from the selected lines, then
\* normalizes it; no stage starts before the one before it has finished.
C20_StageOrder ==
    /\ IsPrefix(st_trace, <<"select", "template", "select", "build", "normalize">>)
    /\ Len(st_trace) >= 2 =>
           /\ st_rendered = [i \in 1..Len(st_loaded) |-> RenderLine(st_loaded[i])]
           /\ \A i \in 1..Len(st_rendered) : \A k \in 1..Len(st_rendered[i]) :
                  ~IsJinja(st_rendered[i][k])
    /\ Len(st_trace) >= 3 =>
           st_selected = select_lines(st_rendered, ns_cfg(st_ns), <<>>).lines
    /\ Len(st_trace) >= 4 => st_doc.entries = st_selected
    /\ Len(st_trace) < 4 => st_doc = NoDoc
    /\ st_doc.sanitized <=> Len(st_trace) = 5
    /\ st_pc = "done" <=> Len(st_trace) = 5

\* the template wrote a selector, and parse dropped its line: the document
\* differs from the rendered text
C20_Witness ==
    /\ st_pc = "done"
    /\ st_ns = "linux-64"
    /\ st_raw = << <<"a">>, <<"e", " ", "{{s}}">> >>
    /\ st_loaded = st_raw
    /\ st_rendered # st_selected
    /\ st_doc = [entries |-> << <<"a">> >>, sanitized |-> TRUE]

\* the selectors of the source were evaluated before the template was resolved:
\* the name u of a line for win is not recorded on linux-64
C20_WitnessLoaderSelects ==
    /\ st_pc = "done"
    /\ st_ns = "linux-64"
    /\ st_permit
    /\ \E i \in 1..Len(st_raw) : \E k \in 1..Len(st_raw[i]) : st_raw[i][k] = "{{u}}"
    /\ st_undef = {}


-----------------------------------------------------------------------------
(* SpecString: build_string_from_metadata on a Metadata with at most        *)
(* MaxRunReqs run requirements.                                             *)

RunNames == {"python", "numpy", "perl", "r-base", "zlib"}

RunReqs(n) == UNION { [1..m -> { <<name>> : name \in RunNames }] : m \in 0..n }

\* the build requirements: none, or every name of RunNames
BuildReqs == { <<>>, << <<"python">>, <<"numpy">>, <<"perl">>, <<"r-base">>, <<"zlib">> >> }

\* config.variant: no version for any name, or python 3.6, numpy 1.11, perl
\* 5.26.2 and r_base 3.5.1
VariantPins ==
    { NoPins,
      [NoPins EXCEPT !["python"] = <<"3", "6">>, !["numpy"] = <<"1", "11">>,
                     !["perl"] = <<"5", "26", "2">>, !["r_base"] = <<"3", "5", "1">>] }

\* build/noarch and build/noarch_python
NoarchModes ==
    { [noarch |-> "", noarch_python |-> FALSE],
      [noarch |-> "python", noarch_python |-> FALSE],
      [noarch |-> "generic", noarch_python |-> FALSE],
      [noarch |-> "", noarch_python |-> TRUE] }

BsInit ==
    /\ IdleExcept("bs")
    /\ \E run \in RunReqs(MaxRunReqs), build \in BuildReqs,
          host \in {<<>>, << <<"python">> >>}, pins \in VariantPins,
          mode \in NoarchModes, numpy_xx \in BOOLEAN,
          features \in {<<>>, <<"f1", "f2">>}, number \in {"absent", "1", "x"},
          string \in {NoString, <<"custom">>} :
           bs_m = [name |-> "pkg", string |-> string,
                   reqs |-> [build |-> build, host |-> host, run |-> run],
                   pins |-> pins, noarch |-> mode.noarch,
                   noarch_python |-> mode.noarch_python, numpy_xx |-> numpy_xx,
                   features |-> features, number |-> number]
    /\ bs_pc = "call"
    /\ bs_out = <<>>

\* build_string_from_metadata(metadata)
BuildString ==
    /\ bs_pc = "call"
    /\ bs_out' = build_string_from_metadata(bs_m)
    /\ bs_pc' = "returned"
    /\ UNCHANGED bs_m
    /\ FrameExcept("bs")

BsNext == BuildString

SpecString == BsInit /\ [][BsNext]_vars

Composed == bs_pc = "returned" /\ bs_m.string = NoString

ArchDependent(m) == m.noarch = "" /\ ~m.noarch_python

\* features joined by underscores and the build number, 0 when it is absent or
\* no integer
Suffix(m) ==
    (IF m.features # <<>> THEN JoinFeatures(m.features) \o <<"_">> ELSE <<>>)
        \o <<IF m.number \in {"1", "2"} THEN m.number ELSE "0">>

\* the names a table entry of the run requirements may be pinned by
RunNamed(m, entry) == { n \in Range(entry.names) : n \in Range(ms_depends(m, "run")) }

Tokened(m, entry) ==
    LET env == IF m.reqs.host # <<>> THEN "host" ELSE "build"
    IN  SelectSeq(ms_depends(m, "run"),
                  LAMBDA n : /\ n \in Range(entry.names)
                             /\ n \in Range(ms_depends(m, env))
                             /\ (n = "numpy" => m.numpy_xx))

C22_WitnessNoBuild ==
    /\ Composed /\ ArchDependent(bs_m)
    /\ bs_m.reqs.run = << <<"python">> >>
    /\ bs_m.pins["python"] = <<"3", "6">>
    /\ bs_m.reqs.build = <<>> /\ bs_m.reqs.host = <<>>
    /\ bs_out = Suffix(bs_m)

Noarch(m) == ~ArchDependent(m)

\* the pin that is the noarch axis
NoarchAxis(m) == IF m.noarch_python THEN "python" ELSE m.noarch

\* the tokens of a string: its pieces before the first underscore
TokensOf(out) ==
    IF \E i \in 1..Len(out) : out[i] = "_"
    THEN SubSeq(out, 1, (CHOOSE i \in 1..Len(out) :
                            out[i] = "_" /\ \A j \in 1..(i - 1) : out[j] # "_") - 1)
    ELSE <<>>

\* C23: for an architecture-independent output (build/noarch or
\* build/noarch_python set) the string has no runtime-pin token of any
\* recognised pin except the pin that is the noarch axis.
C23_AsStated ==
    (Composed /\ Noarch(bs_m)) =>
        \A t \in Range(TokensOf(bs_out)) :
            \E i \in 1..Len(PinTable) :
                /\ NoarchAxis(bs_m) \in Range(PinTable[i].names)
                /\ t \in {PinTable[i].s, PinTokenWithVersion(bs_m, PinTable[i], NoarchAxis(bs_m))}

\* C23, amended: for an architecture-independent output the token of the pin that
\* is the noarch axis (python, under build/noarch: python or build/noarch_python)
\* is the bare abbreviation, without the digits of the variant; the token of
\* every other recognised pin is the one of an architecture-dependent output.
C23_AxisBare ==
    (Composed /\ Noarch(bs_m)) =>
        LET arch == build_string_from_metadata(
                        [bs_m EXCEPT !.noarch = "", !.noarch_python = FALSE])
            n == Len(TokensOf(arch))
            py == PinTokenWithVersion(bs_m, PinTable[2], "python")
        IN  /\ Len(bs_out) = Len(arch)
            /\ \A i \in 1..Len(arch) :
                   bs_out[i] = IF i <= n /\ arch[i] = py /\ NoarchAxis(bs_m) = "python"
                               THEN "py" ELSE arch[i]

\* noarch: python with python and perl built against: py, and pl526 as ever
C23_Witness ==
    /\ Composed
    /\ bs_m.noarch = "python"
    /\ bs_m.reqs.run = << <<"python">>, <<"perl">> >>
    /\ TokensOf(bs_out) = <<"py", "pl526">>

====
